---------------------------- MODULE Spec2Model ----------------------------
(***************************************************************************)
(* Vehicle dynamics of the AK-racing arcade game: the two CarController    *)
(* versions and the MotorcycleController (src/physics), their telemetry    *)
(* derivation, and the simulation loops and tuning flow that drive them    *)
(* (src/components/Simulation.tsx, src/App.tsx, src/unnamed/part_00x).     *)
(*                                                                         *)
(* Numbers.  The program computes in IEEE doubles.  The model computes in  *)
(* fixed point: a real r is the integer round(r * Scale).  Every product   *)
(* and quotient is rounded to the nearest unit, ties away from zero, so    *)
(* that, as in IEEE arithmetic, negating an operand negates the result.    *)
(* A timestep is the rational num/den of a second.                         *)
(***************************************************************************)
EXTENDS Integers, Sequences, FiniteSets, TLC

\* Units per 1.0 (metres, metres/second, radians, ... are held in thousandths).
Scale == 10 ^ 3

\* The rational n/d as a fixed-point number (a literal of the source).
Frac(n, d) == (n * Scale) \div d

Abs(a) == IF a < 0 THEN -a ELSE a

Min(a, b) == IF a < b THEN a ELSE b

Max(a, b) == IF a > b THEN a ELSE b

\* a / b for integers, b > 0, rounded to nearest, ties away from zero.
RoundDiv(a, b) ==
  IF a >= 0 THEN (a + b \div 2) \div b ELSE -((b \div 2 - a) \div b)

\* The product of two fixed-point numbers (JavaScript's a * b).
Mul(a, b) == RoundDiv(a * b, Scale)

\* The same product for operands whose integer product leaves 32 bits:
\* |a| is split at Scale.
MulWide(a, b) ==
  LET m == (Abs(a) \div Scale) * Abs(b) + RoundDiv((Abs(a) % Scale) * Abs(b), Scale)
  IN  IF (a < 0) = (b < 0) THEN m ELSE -m

\* The quotient of two fixed-point numbers (JavaScript's a / b), b > 0.
Div(a, b) == RoundDiv(a * Scale, b)

\* x * dt for a timestep dt = num/den seconds.
MulDt(x, dt) == RoundDiv(x * dt.num, dt.den)

\* (num / den) * v * v, the drag of a controller: the square is taken first
\* so that a coefficient of a few thousandths keeps its digits.
Drag(num, den, v) == RoundDiv(num * MulWide(v, v), den)

\* Math.round of a fixed-point number, as an integer (ties go up).
Round(x) == (x + Scale \div 2) \div Scale

\* JavaScript's x % m for fixed-point x and m > 0 (the sign of x is kept).
FMod(x, m) == IF x >= 0 THEN x % m ELSE -((-x) % m)

(***************************************************************************)
(* Math.sin and Math.cos.  Bhaskara's rational approximation              *)
(* cos t = (pi^2 - 4 t^2) / (pi^2 + t^2) on [-pi/2, pi/2], extended by     *)
(* cos(pi - t) = -cos t and period 2 pi; it is exact at 0, pi/2 and pi,    *)
(* even, and within 0.002 of the cosine.  sin t = cos(t - pi/2).           *)
(***************************************************************************)
Pi == Frac(3142, 1000)

PiSquared == Mul(Pi, Pi)

\* t reduced to (-Pi, Pi].
WrapAngle(t) ==
  LET r == t % (2 * Pi)
  IN  IF r > Pi THEN r - 2 * Pi ELSE r

\* cos t for |t| <= Pi/2.
CosCore(t) ==
  LET t2 == Mul(t, t)
  IN  Div(PiSquared - 4 * t2, PiSquared + t2)

Cos(t) ==
  LET a == Abs(WrapAngle(t))
  IN  IF 2 * a <= Pi THEN CosCore(a) ELSE -CosCore(Pi - a)

Sin(t) ==
  LET w == WrapAngle(t)
  IN  IF w < 0 THEN -CosCore(-w - Pi \div 2) ELSE CosCore(w - Pi \div 2)

(***************************************************************************)
(* Parameter Sets.  DEFAULT_CONFIG of the car App and of the motorcycle    *)
(* App, in fixed point.                                                    *)
(***************************************************************************)
DEFAULT_CONFIG ==
  [ maxSpeed            |-> Frac(160, 1),
    acceleration        |-> Frac(55, 1),
    engineBraking       |-> Frac(5, 1),
    manualBraking       |-> Frac(90, 1),
    steeringSensitivity |-> Frac(11, 10),
    rollFactor          |-> Frac(8, 100),
    pitchFactor         |-> Frac(15, 100),
    angularDamping      |-> Frac(10, 1),
    tractionAsphalt     |-> Frac(1, 1),
    suspensionStiffness |-> Frac(80, 1),
    suspensionDamping   |-> Frac(20, 1) ]

DEFAULT_CONFIG_MOTO ==
  [ maxSpeed            |-> Frac(95, 1),
    acceleration        |-> Frac(22, 1),
    engineBraking       |-> Frac(3, 1),
    manualBraking       |-> Frac(45, 1),
    steeringSensitivity |-> Frac(95, 100),
    leanFactor          |-> Frac(55, 100),
    angularDamping      |-> Frac(8, 1),
    tractionAsphalt     |-> Frac(1, 1),
    suspensionStiffness |-> Frac(65, 1),
    suspensionDamping   |-> Frac(7, 1) ]

\* Parameter Sets a tuning response can deliver: the defaults with a low top
\* speed, which full throttle reaches.
TUNED_CONFIG == [DEFAULT_CONFIG EXCEPT !.maxSpeed = Frac(30, 1)]

TUNED_CONFIG_MOTO == [DEFAULT_CONFIG_MOTO EXCEPT !.maxSpeed = Frac(30, 1)]

\* The three controller classes: the two versions of CarController and
\* MotorcycleController.
Variants == {"CarController", "CarController2", "MotorcycleController"}

IsCar(v) == v \in {"CarController", "CarController2"}

DefaultConfigOf(v) == IF IsCar(v) THEN DEFAULT_CONFIG ELSE DEFAULT_CONFIG_MOTO

TunedConfigOf(v) == IF IsCar(v) THEN TUNED_CONFIG ELSE TUNED_CONFIG_MOTO

\* A Parameter Set a tuning response can deliver as well: the defaults with
\* an acceleration that takes the vehicle past 130 km/h within one frame.
LaunchConfigOf(v) ==
  [(IF IsCar(v) THEN DEFAULT_CONFIG ELSE DEFAULT_CONFIG_MOTO)
     EXCEPT !.acceleration = Frac(800, 1)]

(***************************************************************************)
(* A controller as constructed: the field initialisers and the             *)
(* constructor of each class.                                              *)
(***************************************************************************)
NewCarController(config) ==
  [ config           |-> config,
    position         |-> [x |-> 0, y |-> Frac(3, 10), z |-> 0],
    velocity         |-> 0,
    heading          |-> 0,
    bodyRoll         |-> 0,
    bodyPitch        |-> 0,
    verticalOffset   |-> 0,
    verticalVelocity |-> 0,
    tractionModifier |-> Frac(1, 1) ]

NewMotorcycleController(config) ==
  [ config            |-> config,
    position          |-> [x |-> 0, y |-> Frac(5, 10), z |-> 0],
    velocity          |-> 0,
    heading           |-> 0,
    leanAngle         |-> 0,
    verticalOffset    |-> 0,
    verticalVelocity  |-> 0,
    tractionModifier  |-> Frac(1, 1),
    stabilityModifier |-> Frac(1, 1) ]

NewController(v, config) ==
  IF IsCar(v) THEN NewCarController(config) ELSE NewMotorcycleController(config)

(***************************************************************************)
(* CarController.update, first version.  CarLocals is the value of every   *)
(* local and of every field it assigns, in the order of the code;          *)
(* CarUpdate is the controller after the call.                             *)
(***************************************************************************)
\* CarClamp without its first line.
CarClampUpperOnly(v, maxSpeed) == IF v > maxSpeed THEN maxSpeed ELSE v

CarClamp(v, maxSpeed) ==
  LET v4 == IF v < 0 THEN 0 ELSE v
  IN  IF v4 > maxSpeed THEN maxSpeed ELSE v4

\* CarScrubFactor without Math.abs.
CarScrubFactorSigned(steer, normalizedSpeed) ==
  Mul(Mul(steer, normalizedSpeed), Frac(45, 100))

CarScrubFactor(steer, normalizedSpeed) ==
  Mul(Mul(Abs(steer), normalizedSpeed), Frac(45, 100))

\* CarBraking without the engine braking.
CarBrakingManualOnly(s, inputs) == Mul(inputs.brake, s.config.manualBraking)

\* CarBraking with the engine braking applied at rest too.
CarBrakingAlways(s, inputs) ==
  Mul(inputs.brake, s.config.manualBraking) + s.config.engineBraking

CarBraking(s, inputs) ==
  Mul(inputs.brake, s.config.manualBraking)
    + (IF s.velocity > 0 THEN s.config.engineBraking ELSE 0)

\* CarAfterDrag with the drag subtracted whole, not times dt.
CarAfterDragNoDt(v, dt) == v - Drag(3, 1000, v)

\* The velocity after the drag step.
CarAfterDrag(v, dt) ==
  LET drag == Drag(3, 1000, v)
  IN  v - MulDt(drag, dt)

\* CarMoveZ with the step subtracted.
CarMoveZBack(z, heading, velocity, dt) == z - MulDt(Mul(Cos(heading), velocity), dt)

\* position.z after the movement step.
CarMoveZ(z, heading, velocity, dt) == z + MulDt(Mul(Cos(heading), velocity), dt)

\* Approach with the step taken twice.
ApproachTwice(x, target, rate, dt) == x + 2 * MulDt(Mul(target - x, rate), dt)

\* x += (target - x) * rate * dt: the step by which roll, pitch and lean
\* follow their targets.
Approach(x, target, rate, dt) == x + MulDt(Mul(target - x, rate), dt)

\* CarTargetPitch with the sign of the pitch turned round.
CarTargetPitchInverted(netAccel, cfg) ==
  -Mul(Div(netAccel, cfg.acceleration), cfg.pitchFactor)

\* (netAccel / this.config.acceleration) * this.config.pitchFactor
CarTargetPitch(netAccel, cfg) ==
  Mul(Div(netAccel, cfg.acceleration), cfg.pitchFactor)

\* CarTurnCap without the cap.
CarTurnCapUncapped(velocity) == velocity

\* Math.min(this.velocity, 20.0): what the heading integrates in place of
\* the velocity.
CarTurnCap(velocity) == Min(velocity, Frac(20, 1))

CarLocals(s, dt, inputs) ==
  LET cfg == s.config
      \* 1. Acceleration & Braking
      effectiveAccel == Mul(cfg.acceleration, s.tractionModifier)
      targetAccel    == Mul(inputs.throttle, effectiveAccel)
      braking        == CarBraking(s, inputs)
      netAccel       == targetAccel - braking
      v1             == s.velocity + MulDt(netAccel, dt)
      \* 2. Drag & Steering Scrub
      v2             == CarAfterDrag(v1, dt)
      normalizedSpeed == Div(v2, cfg.maxSpeed)
      scrubFactor    == CarScrubFactor(inputs.steer, normalizedSpeed)
      v3             == v2 - MulDt(Mul(v2, scrubFactor), dt)
      velocity       == CarClamp(v3, cfg.maxSpeed)
      \* 3. Car Steering
      steerLimit     == Mul(Frac(1, 1) - Mul(normalizedSpeed, Frac(7, 10)), s.tractionModifier)
      effectiveSteer == Mul(inputs.steer, steerLimit)
      turnRate       == Mul(Mul(effectiveSteer, Frac(28, 10)), cfg.steeringSensitivity)
      turnCap        == CarTurnCap(velocity)
      heading        == s.heading + MulDt(Mul(turnRate, turnCap), dt)
      \* 4. Body Dynamics (Roll & Pitch)
      targetRoll     == Mul(Mul(-effectiveSteer, normalizedSpeed), cfg.rollFactor)
      bodyRoll       == Approach(s.bodyRoll, targetRoll, cfg.angularDamping, dt)
      targetPitch    == CarTargetPitch(netAccel, cfg)
      bodyPitch      == Approach(s.bodyPitch, targetPitch, cfg.angularDamping, dt)
      \* 5. Movement
      x              == s.position.x + MulDt(Mul(Sin(heading), velocity), dt)
      z              == CarMoveZ(s.position.z, heading, velocity, dt)
      \* 6. Suspension
      groundLevel    == Mul(Sin(MulWide(x, Frac(5, 10))), Frac(2, 100))
                          + Mul(Cos(MulWide(z, Frac(5, 10))), Frac(2, 100))
      error          == groundLevel - s.verticalOffset
      springForce    == Mul(error, cfg.suspensionStiffness)
      dampingForce   == Mul(-s.verticalVelocity, cfg.suspensionDamping)
      verticalVelocity == s.verticalVelocity + MulDt(springForce + dampingForce, dt)
      verticalOffset == s.verticalOffset + MulDt(verticalVelocity, dt)
  IN  [ netAccel |-> netAccel, normalizedSpeed |-> normalizedSpeed,
        effectiveSteer |-> effectiveSteer, turnCap |-> turnCap,
        targetRoll |-> targetRoll, targetPitch |-> targetPitch,
        groundLevel |-> groundLevel,
        velocity |-> velocity, heading |-> heading,
        bodyRoll |-> bodyRoll, bodyPitch |-> bodyPitch,
        position |-> [x |-> x, y |-> Frac(3, 10) + verticalOffset, z |-> z],
        verticalVelocity |-> verticalVelocity, verticalOffset |-> verticalOffset ]

\* The controller s after an update that computed the locals u.
Assigned(s, u) ==
  [f \in DOMAIN s |-> IF f \in DOMAIN u THEN u[f] ELSE s[f]]

CarUpdate(s, dt, inputs) == Assigned(s, CarLocals(s, dt, inputs))

(***************************************************************************)
(* CarController.update, second version.  random is the value Math.random  *)
(* returns in the road noise.                                              *)
(***************************************************************************)
Car2Clamp(v, maxSpeed) ==
  LET v4 == IF v < 0 THEN 0 ELSE v
  IN  IF v4 > maxSpeed THEN maxSpeed ELSE v4

Car2Locals(s, dt, inputs, random) ==
  LET cfg == s.config
      \* 1. Propulsion & Braking
      powerScale     == IF s.velocity < Frac(20, 1) THEN Frac(12, 10) ELSE Frac(1, 1)
      effectiveAccel == Mul(Mul(cfg.acceleration, s.tractionModifier), powerScale)
      targetAccel    == Mul(inputs.throttle, effectiveAccel)
      brakingPower   == Mul(cfg.manualBraking, Frac(12, 10))
      braking        == Mul(inputs.brake, brakingPower)
                          + (IF s.velocity > 0 THEN cfg.engineBraking ELSE 0)
      netAccel       == targetAccel - braking
      v1             == s.velocity + MulDt(netAccel, dt)
      \* 2. Drag & Tire Scrub
      drag           == Drag(25, 10000, v1)
      v2             == v1 - MulDt(drag, dt)
      normalizedSpeed == Div(v2, cfg.maxSpeed)
      lateralG       == Mul(Abs(inputs.steer), normalizedSpeed)
      scrubIntensity == Frac(55, 100)
      v3             == v2 - MulDt(Mul(Mul(v2, lateralG), scrubIntensity), dt)
      velocity       == Car2Clamp(v3, cfg.maxSpeed)
      \* 3. Steering Dynamics
      steerLock      == Frac(85, 100) - Mul(normalizedSpeed, Frac(65, 100))
      effectiveSteer == Mul(Mul(inputs.steer, steerLock), cfg.steeringSensitivity)
      turnSensitivity == Frac(32, 10)
      turningCircle  == Min(velocity, Frac(35, 1))
      heading        == s.heading
                          + MulDt(Mul(Mul(effectiveSteer, turnSensitivity),
                                      Div(turningCircle, Frac(20, 1))), dt)
      \* 4. Weight Transfer
      targetRoll     == Mul(Mul(Mul(-effectiveSteer, normalizedSpeed), cfg.rollFactor),
                            Frac(18, 10))
      bodyRoll       == Approach(s.bodyRoll, targetRoll, cfg.angularDamping, dt)
      accelerationForce == Div(netAccel, cfg.acceleration)
      targetPitch    == Mul(Mul(accelerationForce, cfg.pitchFactor), Frac(15, 10))
      bodyPitch      == Approach(s.bodyPitch, targetPitch, cfg.angularDamping, dt)
      \* 5. Movement
      x              == s.position.x + MulDt(Mul(Sin(heading), velocity), dt)
      z              == s.position.z + MulDt(Mul(Cos(heading), velocity), dt)
      \* 6. Micro-suspension
      roadNoise      == Mul(Mul(random - Frac(5, 10), Frac(5, 1000)), normalizedSpeed)
      groundLevel    == Mul(Sin(MulWide(x, Frac(8, 10))), Frac(1, 100)) + roadNoise
      springError    == groundLevel - s.verticalOffset
      verticalVelocity == s.verticalVelocity
                            + MulDt(Mul(springError, cfg.suspensionStiffness)
                                      - Mul(s.verticalVelocity, cfg.suspensionDamping), dt)
      verticalOffset == s.verticalOffset + MulDt(verticalVelocity, dt)
  IN  [ netAccel |-> netAccel, normalizedSpeed |-> normalizedSpeed,
        effectiveSteer |-> effectiveSteer, turnCap |-> turningCircle,
        targetRoll |-> targetRoll, targetPitch |-> targetPitch,
        groundLevel |-> groundLevel,
        velocity |-> velocity, heading |-> heading,
        bodyRoll |-> bodyRoll, bodyPitch |-> bodyPitch,
        position |-> [x |-> x, y |-> Frac(3, 10) + verticalOffset, z |-> z],
        verticalVelocity |-> verticalVelocity, verticalOffset |-> verticalOffset ]

Car2Update(s, dt, inputs, random) == Assigned(s, Car2Locals(s, dt, inputs, random))

(***************************************************************************)
(* MotorcycleController.update.                                            *)
(***************************************************************************)
MotoClamp(v, maxSpeed) ==
  LET v4 == IF v < 0 THEN 0 ELSE v
  IN  IF v4 > maxSpeed THEN maxSpeed ELSE v4

\* MotoTurnVelocity without the floor.
MotoTurnVelocityNoFloor(velocity) == velocity

\* Math.max(this.velocity, 2.0): the floor that keeps the steering alive at
\* rest.
MotoTurnVelocity(velocity) == Max(velocity, Frac(2, 1))

MotoLocals(s, dt, inputs) ==
  LET cfg == s.config
      \* 1. Core Movement Model with Traction
      effectiveAccel == Mul(cfg.acceleration, s.tractionModifier)
      targetAccel    == Mul(inputs.throttle, effectiveAccel)
      braking        == Mul(inputs.brake, cfg.manualBraking)
                          + (IF s.velocity > 0 THEN cfg.engineBraking ELSE 0)
      netAccel       == targetAccel - braking
      v1             == s.velocity + MulDt(netAccel, dt)
      drag           == Drag(5, 1000, v1)
      v2             == v1 - MulDt(drag, dt)
      velocity       == MotoClamp(v2, cfg.maxSpeed)
      \* 2. Steering & Leaning
      normalizedSpeed == Div(velocity, cfg.maxSpeed)
      steerLimit     == Mul(Frac(15, 10) - Mul(normalizedSpeed, Frac(11, 10)), s.tractionModifier)
      effectiveSteer == Mul(inputs.steer, steerLimit)
      agilityMultiplier == Frac(25, 10) - Mul(normalizedSpeed, Frac(18, 10))
      turnRate       == Mul(Mul(effectiveSteer, agilityMultiplier), cfg.steeringSensitivity)
      turnVelocity   == MotoTurnVelocity(velocity)
      heading        == s.heading + MulDt(Mul(turnRate, turnVelocity), dt)
      targetLean     == Mul(Mul(Mul(effectiveSteer, normalizedSpeed), cfg.leanFactor),
                            Frac(15, 10))
      effectiveDamping == Mul(cfg.angularDamping, s.stabilityModifier)
      leanAngle      == Approach(s.leanAngle, targetLean, effectiveDamping, dt)
      \* 3. Position update
      x              == s.position.x + MulDt(Mul(Sin(heading), velocity), dt)
      z              == s.position.z + MulDt(Mul(Cos(heading), velocity), dt)
      \* 5. Suspension
      groundLevel    == Mul(Sin(MulWide(x, Frac(5, 10))), Frac(5, 100))
                          + Mul(Cos(MulWide(z, Frac(5, 10))), Frac(5, 100))
      error          == groundLevel - s.verticalOffset
      springForce    == Mul(error, cfg.suspensionStiffness)
      dampingForce   == Mul(-s.verticalVelocity, cfg.suspensionDamping)
      verticalVelocity == s.verticalVelocity + MulDt(springForce + dampingForce, dt)
      verticalOffset == s.verticalOffset + MulDt(verticalVelocity, dt)
  IN  [ netAccel |-> netAccel, normalizedSpeed |-> normalizedSpeed,
        effectiveSteer |-> effectiveSteer, turnCap |-> turnVelocity,
        targetRoll |-> targetLean, targetPitch |-> 0,
        groundLevel |-> groundLevel,
        velocity |-> velocity, heading |-> heading,
        leanAngle |-> leanAngle,
        position |-> [x |-> x, y |-> Frac(5, 10) + verticalOffset, z |-> z],
        verticalVelocity |-> verticalVelocity, verticalOffset |-> verticalOffset ]

MotoUpdate(s, dt, inputs) == Assigned(s, MotoLocals(s, dt, inputs))

\* update of the class v: the locals it computes.
\* JavaScript's NaN, which every arithmetic operation hands on. It is kept
\* apart from the numbers of a run by its size; being below them all, it
\* fails every test x > c as NaN does.
NaN == -(2 ^ 30)

\* A Parameter Set with every field of PhysicsConfig.
WellFormed(config) == DOMAIN config = DOMAIN DEFAULT_CONFIG
                        \/ DOMAIN config = DOMAIN DEFAULT_CONFIG_MOTO

\* The object JSON.parse makes of the text {"maxSpeed":"fast"}: one field,
\* not a number, and every other field undefined.
MALFORMED_CONFIG == [maxSpeed |-> "fast"]

\* A controller whose update computes with undefined or NaN operands.
Poisoned(s) == ~WellFormed(s.config) \/ s.velocity = NaN

\* The locals of an update of a poisoned controller: every sum and product
\* has a NaN or undefined operand, and the clamps' comparisons are false.
NaNLocals ==
  [ netAccel |-> NaN, normalizedSpeed |-> NaN, effectiveSteer |-> NaN,
    turnCap |-> NaN, targetRoll |-> NaN, targetPitch |-> NaN,
    groundLevel |-> NaN, velocity |-> NaN, heading |-> NaN,
    bodyRoll |-> NaN, bodyPitch |-> NaN, leanAngle |-> NaN,
    position |-> [x |-> NaN, y |-> NaN, z |-> NaN],
    verticalVelocity |-> NaN, verticalOffset |-> NaN ]

UpdateLocals(v, s, dt, inputs, random) ==
  IF Poisoned(s) THEN NaNLocals
  ELSE CASE v = "CarController"        -> CarLocals(s, dt, inputs)
         [] v = "CarController2"       -> Car2Locals(s, dt, inputs, random)
         [] v = "MotorcycleController" -> MotoLocals(s, dt, inputs)

\* The roll angle of a controller: bodyRoll of a car, leanAngle of a motorcycle.
RollOf(s) == IF "leanAngle" \in DOMAIN s THEN s.leanAngle ELSE s.bodyRoll

(***************************************************************************)
(* getTelemetry of the three classes: a record computed from the           *)
(* controller, the inputs and the extras.                                  *)
(***************************************************************************)
CarTelemetry(s, inputs, extra) ==
  [ speed     |-> Round(Mul(s.velocity, Frac(36, 10))),
    bodyRoll  |-> Round(Mul(s.bodyRoll, Frac(5729, 100))),
    bodyPitch |-> Round(Mul(s.bodyPitch, Frac(5729, 100))),
    rpm       |-> Min(Frac(8500, 1),
                      Frac(1000, 1) + FMod(MulWide(s.velocity, Frac(150, 1)), Frac(7500, 1))),
    gear      |-> (s.velocity \div Frac(18, 1)) + 1,
    throttle  |-> inputs.throttle,
    brake     |-> inputs.brake,
    steering  |-> inputs.steer,
    score     |-> extra.score,
    lap       |-> extra.lap,
    position  |-> extra.position,
    level     |-> extra.level ]

gearThresholds == <<0, 40, 80, 130, 190, 260>>

\* The gear loop with >= in place of >.
Car2GearAtThreshold(kph) ==
  LET above == {i \in 2..Len(gearThresholds) : kph >= Frac(gearThresholds[i], 1)}
  IN  IF above = {} THEN 1 ELSE CHOOSE i \in above : \A j \in above : j <= i

\* The loop over gearThresholds: the last index i >= 2 with kph above the
\* threshold, or 1.
Car2Gear(kph) ==
  LET above == {i \in 2..Len(gearThresholds) : kph > Frac(gearThresholds[i], 1)}
  IN  IF above = {} THEN 1 ELSE CHOOSE i \in above : \A j \in above : j <= i

\* The rpm without its Math.min(9000, ...).
Car2RpmUncapped(kph, gear, throttle) ==
  LET currentGearMin == Frac(gearThresholds[gear], 1)
      currentGearMax == IF gear + 1 <= Len(gearThresholds)
                          THEN Frac(gearThresholds[gear + 1], 1) ELSE Frac(400, 1)
      gearRange      == currentGearMax - currentGearMin
      rpmBase        == MulWide(Frac(5000, 1), Div(kph - currentGearMin, gearRange))
  IN  Frac(2000, 1) + rpmBase + Mul(throttle, Frac(500, 1))

Car2Rpm(kph, gear, throttle) ==
  LET currentGearMin == Frac(gearThresholds[gear], 1)
      currentGearMax == IF gear + 1 <= Len(gearThresholds)
                          THEN Frac(gearThresholds[gear + 1], 1) ELSE Frac(400, 1)
      gearRange      == currentGearMax - currentGearMin
      rpmBase        == MulWide(Frac(5000, 1), Div(kph - currentGearMin, gearRange))
  IN  Min(Frac(9000, 1), Frac(2000, 1) + rpmBase + Mul(throttle, Frac(500, 1)))

Car2Telemetry(s, inputs, extra) ==
  LET kph  == Mul(s.velocity, Frac(36, 10))
      gear == Car2Gear(kph)
  IN  [ speed     |-> Round(kph),
        bodyRoll  |-> Round(Mul(s.bodyRoll, Frac(5729, 100))),
        bodyPitch |-> Round(Mul(s.bodyPitch, Frac(5729, 100))),
        rpm       |-> Round(Car2Rpm(kph, gear, inputs.throttle)),
        gear      |-> gear,
        throttle  |-> inputs.throttle,
        brake     |-> inputs.brake,
        steering  |-> inputs.steer,
        score     |-> extra.score,
        lap       |-> extra.lap,
        position  |-> extra.position,
        level     |-> extra.level ]

MotoTelemetry(s, inputs, extra) ==
  [ speed     |-> Round(Mul(s.velocity, Frac(36, 10))),
    leanAngle |-> Round(Mul(s.leanAngle, Frac(5729, 100))),
    rpm       |-> Min(Frac(9000, 1),
                      Frac(2000, 1) + FMod(MulWide(s.velocity, Frac(120, 1)), Frac(7000, 1))),
    gear      |-> (s.velocity \div Frac(15, 1)) + 1,
    throttle  |-> inputs.throttle,
    brake     |-> inputs.brake,
    steering  |-> inputs.steer,
    score     |-> extra.score,
    lap       |-> extra.lap,
    position  |-> extra.position ]

\* The telemetry fields computed from the Vehicle State.
StateFields == {"speed", "bodyRoll", "bodyPitch", "leanAngle", "rpm", "gear"}

TelemetryOf(v, s, inputs, extra) ==
  LET read(c) == CASE v = "CarController"        -> CarTelemetry(c, inputs, extra)
                   [] v = "CarController2"       -> Car2Telemetry(c, inputs, extra)
                   [] v = "MotorcycleController" -> MotoTelemetry(c, inputs, extra)
  IN  IF s.velocity = NaN
      THEN LET t == read(NewController(v, DefaultConfigOf(v)))
           IN  [f \in DOMAIN t |-> IF f \in StateFields THEN NaN ELSE t[f]]
      ELSE read(s)

(***************************************************************************)
(* State.                                                                  *)
(***************************************************************************)
VARIABLES
  variant,    \* the class of the controller
  pC,         \* the controller: its config and its Vehicle State
  twin,       \* a second controller of the same class, steered the other way
  start,      \* the controller as it was before the first call
  locals,     \* the locals of the most recent update call
  inputs,     \* the current inputs: those of the most recent call
  extra,      \* the extras of the most recent getTelemetry call
  dt,         \* the timestep of the most recent update call
  random,     \* the value Math.random() returned most recently
  frame,      \* the number of update calls made
  lastOp,     \* the most recent call
  repeats,    \* the number of getTelemetry calls since the last update
  telemetry,  \* the record the most recent getTelemetry call returned
  app,        \* the App component's state
  sim,        \* the Simulation component: its kind, its refs
  loops       \* the animation loops the Simulation's effect has started

vars == <<variant, pC, twin, start, locals, inputs, extra, dt, random, frame,
          lastOp, repeats, telemetry, app, sim, loops>>

\* Bounds of the exploration: update calls in a run of Spec.
MaxFrames == 2

NoInputs == [throttle |-> 0, brake |-> 0, steer |-> 0]

NoExtra == [score |-> 0, lap |-> 0, position |-> 0, level |-> 0]

NoDt == [num |-> 0, den |-> 1]

NoLocals == [c \in {} |-> 0]

NoTelemetry == [c \in {} |-> 0]

\* No App and no Simulation: the controller is driven directly.
NoApp == [c \in {} |-> 0]

NoSim == [c \in {} |-> 0]

\* Inputs the callers pass: a key map gives throttle and brake in {0, 1} and
\* steer in {-1, 0, 1}.
Levels == {0, Frac(1, 1)}

Steers == {-Frac(1, 1), 0, Frac(1, 1)}

InputSet == [throttle : Levels, brake : Levels, steer : Steers]

\* Timesteps: a 60 Hz frame and the loops' upper clamp.
Dts == {[num |-> 1, den |-> 60], [num |-> 1, den |-> 20]}

\* Values of Math.random(), which lies in [0, 1).
Randoms == {0, Frac(999, 1000)}

RandomsOf(v) == IF v = "CarController2" THEN Randoms ELSE {0}

Extras == { [score |-> 0, lap |-> 1, position |-> 1, level |-> 1],
            [score |-> 3000, lap |-> 1, position |-> 1, level |-> 2] }

\* The config and speed a controller can have when a call arrives: the
\* default Parameter Set at rest, slow, or clamped at maxSpeed, and the tuned
\* one clamped at maxSpeed.
StartStates(v) ==
  ({DefaultConfigOf(v)} \X {0, Frac(10, 1), DefaultConfigOf(v).maxSpeed})
    \cup ({TunedConfigOf(v)} \X {TunedConfigOf(v).maxSpeed})

Mirror(in) == [in EXCEPT !.steer = -in.steer]

(***************************************************************************)
(* The controller driven directly: any sequence of update calls, each      *)
(* made on the twin as well with the steer negated.                        *)
(***************************************************************************)
InitWith(states) ==
  /\ \E st \in states : pC = [NewController(variant, st[1]) EXCEPT !.velocity = st[2]]
  /\ twin = pC
  /\ start = pC
  /\ locals = NoLocals
  /\ extra = NoExtra
  /\ frame = 0
  /\ lastOp = "new"
  /\ repeats = 0
  /\ telemetry = NoTelemetry
  /\ app = NoApp
  /\ sim = NoSim
  /\ loops = <<>>

Init ==
  /\ variant \in Variants
  /\ InitWith(StartStates(variant))
  /\ inputs = NoInputs
  /\ dt = NoDt
  /\ random = 0

\* pC.update(d, in), in which Math.random() returns r.
update(d, in, r) ==
  /\ locals' = UpdateLocals(variant, pC, d, in, r)
  /\ pC' = Assigned(pC, locals')
  /\ inputs' = in
  /\ dt' = d
  /\ random' = r
  /\ frame' = frame + 1
  /\ lastOp' = "update"
  /\ repeats' = 0
  /\ UNCHANGED <<variant, start, extra, telemetry, app, sim, loops>>

\* The same call on the twin, steered the other way.
twinUpdate(d, in, r) ==
  twin' = Assigned(twin, UpdateLocals(variant, twin, d, Mirror(in), r))

\* getTelemetry with the speed conversion written back into the controller.
getTelemetryWriting(in, e) ==
  /\ telemetry' = TelemetryOf(variant, pC, in, e)
  /\ pC' = [pC EXCEPT !.velocity = Mul(pC.velocity, Frac(36, 10))]
  /\ inputs' = in
  /\ extra' = e
  /\ lastOp' = "getTelemetry"
  /\ repeats' = repeats + 1
  /\ UNCHANGED <<variant, twin, start, locals, dt, random, frame, app, sim, loops>>

\* pC.getTelemetry(in, e).
getTelemetry(in, e) ==
  /\ telemetry' = TelemetryOf(variant, pC, in, e)
  /\ inputs' = in
  /\ extra' = e
  /\ lastOp' = "getTelemetry"
  /\ repeats' = repeats + 1
  /\ UNCHANGED <<variant, pC, twin, start, locals, dt, random, frame, app, sim, loops>>

Next ==
  /\ frame < MaxFrames
  /\ \E d \in Dts, in \in InputSet, r \in RandomsOf(variant) :
       update(d, in, r) /\ twinUpdate(d, in, r)

Spec == Init /\ [][Next]_vars

(***************************************************************************)
(* The controller read by its caller: update calls interleaved with        *)
(* getTelemetry calls.                                                     *)
(***************************************************************************)
\* Bounds: update calls in a run of SpecTelemetry, and getTelemetry calls
\* between two of them.
MaxTelemetryFrames == 1

MaxRepeats == 2

TelemetryInputs ==
  { NoInputs,
    [throttle |-> Frac(1, 1), brake |-> 0, steer |-> Frac(1, 1)],
    [throttle |-> 0, brake |-> Frac(1, 1), steer |-> -Frac(1, 1)] }

NextTelemetry ==
  \/ /\ frame < MaxTelemetryFrames
     /\ \E in \in TelemetryInputs, r \in RandomsOf(variant) :
          update([num |-> 1, den |-> 60], in, r) /\ UNCHANGED twin
  \/ /\ repeats < MaxRepeats
     /\ \E in \in TelemetryInputs, e \in Extras : getTelemetry(in, e)

SpecTelemetry == Init /\ [][NextTelemetry]_vars

(***************************************************************************)
(* The controller under held inputs: one constant dt, one constant input   *)
(* record, update after update.                                            *)
(***************************************************************************)
\* Bound: update calls in a run of SpecHold.
HoldFrames == 1000

\* The frames of a two second run at 60 Hz.
RunFrames == 2 * 60

FullThrottle == [throttle |-> Frac(1, 1), brake |-> 0, steer |-> 0]

HoldInputs == {NoInputs, FullThrottle}

\* The default Parameter Set at rest and at two speeds below its drag
\* equilibrium, and the tuned one at rest.
HoldStates(v) ==
  ({DefaultConfigOf(v)} \X {0, Frac(10, 1), Frac(50, 1)})
    \cup ({TunedConfigOf(v)} \X {0})

InitHold ==
  /\ variant \in Variants
  /\ InitWith(HoldStates(variant))
  /\ inputs \in HoldInputs
  /\ dt \in Dts
  /\ random \in RandomsOf(variant)

NextHold ==
  /\ frame < HoldFrames
  /\ update(dt, inputs, random)
  /\ UNCHANGED twin

SpecHold == InitHold /\ [][NextHold]_vars

(***************************************************************************)
(* The attitude angles: a few updates from rest or from speed, with every  *)
(* dt a simulation loop passes.                                            *)
(***************************************************************************)
\* Bound: update calls in a run of SpecAttitude.
AttitudeFrames == 2

\* A 60 Hz frame, the upper clamp of three loops, and the upper clamp of
\* components/Simulation.tsx.
AttitudeDts == Dts \cup {[num |-> 1, den |-> 10]}

AttitudeInputs ==
  { NoInputs,
    [throttle |-> Frac(1, 1), brake |-> 0, steer |-> 0],
    [throttle |-> 0, brake |-> Frac(1, 1), steer |-> 0],
    [throttle |-> Frac(1, 1), brake |-> 0, steer |-> Frac(1, 1)],
    [throttle |-> 0, brake |-> 0, steer |-> -Frac(1, 1)] }

InitAttitude ==
  /\ variant \in Variants
  /\ \E vel \in {0, Frac(50, 1)} :
       pC = [NewController(variant, DefaultConfigOf(variant)) EXCEPT !.velocity = vel]
  /\ twin = pC
  /\ start = pC
  /\ locals = NoLocals
  /\ inputs = NoInputs
  /\ extra = NoExtra
  /\ dt = NoDt
  /\ random = 0
  /\ frame = 0
  /\ lastOp = "new"
  /\ repeats = 0
  /\ telemetry = NoTelemetry
  /\ app = NoApp
  /\ sim = NoSim
  /\ loops = <<>>

NextAttitude ==
  /\ frame < AttitudeFrames
  /\ \E d \in AttitudeDts, in \in AttitudeInputs, r \in RandomsOf(variant) :
       update(d, in, r) /\ UNCHANGED twin

SpecAttitude == InitAttitude /\ [][NextAttitude]_vars

(***************************************************************************)
(* The gauges: getTelemetry read at every speed from 0 to maxSpeed.        *)
(***************************************************************************)
\* The speeds at which the second car's kph meets a gear threshold.
ThresholdVelocities == {RoundDiv(10 * Frac(gearThresholds[i], 1), 36) : i \in 2..Len(gearThresholds)}

\* Every whole speed from 0 to maxSpeed, the halves between them, and the
\* threshold speeds with their neighbours.
GaugeVelocities(v) ==
  LET maxSpeed == DefaultConfigOf(v).maxSpeed
  IN  {w \in {k * (Scale \div 2) : k \in 0..(2 * (maxSpeed \div Scale))}
               \cup {b + e : b \in ThresholdVelocities, e \in {-1, 0, 1}} :
         w <= maxSpeed}

GaugeInputs ==
  { [throttle |-> th, brake |-> 0, steer |-> 0] : th \in {0, Frac(1, 2), Frac(1, 1)} }

InitGauge ==
  /\ variant \in Variants
  /\ \E w \in GaugeVelocities(variant) :
       pC = [NewController(variant, DefaultConfigOf(variant)) EXCEPT !.velocity = w]
  /\ twin = pC
  /\ start = pC
  /\ locals = NoLocals
  /\ inputs = NoInputs
  /\ extra = NoExtra
  /\ dt = NoDt
  /\ random = 0
  /\ frame = 0
  /\ lastOp = "new"
  /\ repeats = 0
  /\ telemetry = NoTelemetry
  /\ app = NoApp
  /\ sim = NoSim
  /\ loops = <<>>

NextGauge ==
  /\ repeats < MaxRepeats
  /\ \E in \in GaugeInputs, e \in Extras : getTelemetry(in, e)

SpecGauge == InitGauge /\ [][NextGauge]_vars

(***************************************************************************)
(* Coasting: throttle 0 on every frame, one constant dt, the animation     *)
(* frame callback rescheduled after every call.                            *)
(***************************************************************************)
\* A Parameter Set a tuning response can deliver: the default one with no
\* engine braking.
FreewheelConfigOf(v) == [DefaultConfigOf(v) EXCEPT !.engineBraking = 0]

CoastInputs ==
  { NoInputs,
    [throttle |-> 0, brake |-> 0, steer |-> Frac(1, 1)],
    [throttle |-> 0, brake |-> Frac(1, 1), steer |-> 0] }

CoastStates(v) ==
  { [NewController(v, config) EXCEPT !.velocity = vel] :
      config \in {DefaultConfigOf(v), FreewheelConfigOf(v)},
      vel \in {0, Frac(10, 1), DefaultConfigOf(v).maxSpeed} }

InitCoast ==
  /\ variant \in Variants
  /\ pC \in CoastStates(variant)
  /\ twin = pC
  /\ start = pC
  /\ locals = NoLocals
  /\ inputs \in CoastInputs
  /\ extra = NoExtra
  /\ dt \in Dts
  /\ random \in RandomsOf(variant)
  /\ frame = 0
  /\ lastOp = "new"
  /\ repeats = 0
  /\ telemetry = NoTelemetry
  /\ app = NoApp
  /\ sim = NoSim
  /\ loops = <<>>

NextCoast ==
  /\ frame < HoldFrames
  /\ update(dt, inputs, random)
  /\ UNCHANGED twin

\* animate ends with requestAnimationFrame(animate), and the browser calls
\* what is scheduled: while the run lasts, the next frame comes.
requestAnimationFrame == frame < HoldFrames /\ frame' = frame + 1

\* Every step of NextCoast is a frame and update is defined in every state,
\* so the fairness of the frames is the fairness of NextCoast.
SpecCoast == InitCoast /\ [][NextCoast]_vars /\ WF_frame(requestAnimationFrame)

(***************************************************************************)
(* The suspension of a standing vehicle: no inputs, one constant dt, from  *)
(* any vertical offset and vertical velocity within a range.               *)
(***************************************************************************)
\* Bound: update calls in a run of SpecSuspension.
SuspensionFrames == 150

\* A Parameter Set a tuning response can deliver: the default one with a
\* suspensionDamping of 50.
DampedConfigOf(v) == [DefaultConfigOf(v) EXCEPT !.suspensionDamping = Frac(50, 1)]

\* The vertical offsets and velocities a run starts from.
StartOffsets == {-Frac(5, 10), 0, Frac(5, 10)}

StartVerticalVelocities == {-Frac(1, 1), 0, Frac(1, 1)}

\* The run is followed while the offset stays within 10 units of length and
\* the vertical velocity within 20 units of length a second.
OffsetCap == Frac(10, 1)

VerticalVelocityCap == Frac(20, 1)

InitSuspension ==
  /\ variant \in Variants
  /\ \E config \in {DefaultConfigOf(variant), DampedConfigOf(variant)},
        offset \in StartOffsets, vv \in StartVerticalVelocities :
       pC = [NewController(variant, config) EXCEPT !.verticalOffset = offset,
                                                   !.verticalVelocity = vv]
  /\ twin = pC
  /\ start = pC
  /\ locals = NoLocals
  /\ inputs = NoInputs
  /\ extra = NoExtra
  /\ dt \in Dts
  /\ random \in RandomsOf(variant)
  /\ frame = 0
  /\ lastOp = "new"
  /\ repeats = 0
  /\ telemetry = NoTelemetry
  /\ app = NoApp
  /\ sim = NoSim
  /\ loops = <<>>

NextSuspension ==
  /\ frame < SuspensionFrames
  /\ Abs(pC.verticalOffset) <= OffsetCap
  /\ Abs(pC.verticalVelocity) <= VerticalVelocityCap
  /\ update(dt, inputs, random)
  /\ UNCHANGED twin

SpecSuspension == InitSuspension /\ [][NextSuspension]_vars

(***************************************************************************)
(* Degraded grip: a surface collaborator has assigned the public field     *)
(* tractionModifier before the updates.                                    *)
(***************************************************************************)
TractionModifiers == {0, Frac(1, 2), Frac(1, 1)}

TractionStates(v) ==
  { [NewController(v, DefaultConfigOf(v)) EXCEPT !.velocity = vel, !.tractionModifier = tm] :
      vel \in {0, Frac(10, 1), Frac(50, 1)}, tm \in TractionModifiers }

InitTraction ==
  /\ variant \in Variants
  /\ pC \in TractionStates(variant)
  /\ twin = pC
  /\ start = pC
  /\ locals = NoLocals
  /\ inputs = NoInputs
  /\ extra = NoExtra
  /\ dt = NoDt
  /\ random = 0
  /\ frame = 0
  /\ lastOp = "new"
  /\ repeats = 0
  /\ telemetry = NoTelemetry
  /\ app = NoApp
  /\ sim = NoSim
  /\ loops = <<>>

NextTraction ==
  /\ frame < MaxFrames
  /\ \E d \in Dts, in \in InputSet, r \in RandomsOf(variant) :
       update(d, in, r) /\ UNCHANGED twin

SpecTraction == InitTraction /\ [][NextTraction]_vars

(***************************************************************************)
(* The application: the App component with its AI tuning, and the          *)
(* Simulation component with its animation loops. Scores, levels and       *)
(* counts are integers; times and the cars' progress are fixed-point.      *)
(* The scene (meshes, camera, renderer) is left out: no update reads it.   *)
(***************************************************************************)
\* Bounds: the animate calls, the runs of the scene effect and the tunings
\* of a run of SpecLoop.
MaxLoopFrames == 3

MaxEffects == 2

MaxTunes == 1

\* The Simulation components, by the file that holds them.
Kinds == {"Simulation.tsx", "part_001", "part_002", "MotorcycleController.ts"}

VariantsOf(kind) ==
  IF kind \in {"Simulation.tsx", "part_002"}
  THEN {"MotorcycleController"}
  ELSE {"CarController", "CarController2"}

Speed == "SPEED_DEMON"

Collect == "GEM_HUNTER"

Checkpoint == "PRECISION_PILOT"

CUSTOM_TASK_AGILE == "TECHNICAL_U_TURN"

Floor(x) == x \div Scale

\* a merged with b, b's fields winning: { ...a, ...b }.
Spread(a, b) ==
  [f \in DOMAIN a \cup DOMAIN b |-> IF f \in DOMAIN b THEN b[f] ELSE a[f]]

\* x * c, where x may be NaN.
Times(x, c) == IF x = NaN THEN NaN ELSE Mul(x, c)

\* The locals of the scene effect, one set per run of it.
NewLoop(kind) ==
  [ keys              |-> NoInputs,
    listening         |-> TRUE,
    collisionCooldown |-> 0,
    lScore            |-> 0,
    lProgress         |-> 0,
    lTask             |-> CASE kind = "part_001"       -> Speed
                            [] kind = "Simulation.tsx" -> ""
                            [] OTHER                   -> Collect,
    lTotal            |-> CASE kind = "part_001"       -> Frac(10, 1)
                            [] kind = "MotorcycleController.ts" -> Frac(5, 1)
                            [] kind = "part_002"       -> 5
                            [] OTHER                   -> 0,
    lSpeedTimer       |-> 0,
    lInitialHeading   |-> 0,
    gems              |-> IF kind = "part_002" THEN 30 ELSE 0,
    archways          |-> IF kind = "part_002" THEN 10 ELSE 0,
    \* History, no locals of the source: the time for which the Speed task
    \* has been current with the speed above 130 km/h on every frame, and
    \* the time since this loop's last collision penalty, counted up to the
    \* length of the cooldown (-1: no penalty yet).
    held              |-> 0,
    sinceHit          |-> -1 ]

\* dt of an animate call made gap milliseconds after the one before.
ClampDt(kind, gap) ==
  [ num |-> CASE kind = "Simulation.tsx" -> Min(gap, 100)
              [] kind = "part_002"       -> Min(gap, 50)
              [] OTHER                   -> Max(1, Min(gap, 50)),
    den |-> 1000 ]

\* The rules with a collision factor of 1.4 in place of 0.4 and 0.35.
CarRulesBoosting(kind) ==
  IF kind = "part_001"
  THEN [ keep |-> Frac(14, 10), penalty |-> 1000, cooldown |-> Frac(15, 10),
         task |-> Speed, above |-> Frac(25, 1), rate |-> Frac(2, 10),
         cap |-> 10, bonus |-> 5000 ]
  ELSE [ keep |-> Frac(14, 10), penalty |-> 800, cooldown |-> Frac(12, 10),
         task |-> Collect, above |-> Frac(15, 1), rate |-> Frac(15, 100),
         cap |-> 5, bonus |-> 3000 ]

\* The numbers in which the two car Simulations differ.
CarRules(kind) ==
  IF kind = "part_001"
  THEN [ keep |-> Frac(35, 100), penalty |-> 1000, cooldown |-> Frac(15, 10),
         task |-> Speed, above |-> Frac(25, 1), rate |-> Frac(2, 10),
         cap |-> 10, bonus |-> 5000 ]
  ELSE [ keep |-> Frac(4, 10), penalty |-> 800, cooldown |-> Frac(12, 10),
         task |-> Collect, above |-> Frac(15, 1), rate |-> Frac(15, 100),
         cap |-> 5, bonus |-> 3000 ]

\* The body of obstacles.forEach that applies the penalty whatever the
\* cooldown.
HitObstacleAlways(rules, c) ==
  [ velocity |-> Times(c.velocity, rules.keep),
    score    |-> Max(0, c.score - rules.penalty),
    cooldown |-> rules.cooldown ]

\* The body of obstacles.forEach for an obstacle within reach of the car: c
\* holds the velocity, the score and the cooldown.
HitObstacle(rules, c) ==
  IF c.cooldown <= 0
  THEN [ velocity |-> Times(c.velocity, rules.keep),
         score    |-> Max(0, c.score - rules.penalty),
         cooldown |-> rules.cooldown ]
  ELSE c

\* obstacles.forEach, at most two obstacles lying within reach.
HitObstacles(rules, c, n) ==
  CASE n = 0 -> c
    [] n = 1 -> HitObstacle(rules, c)
    [] OTHER -> HitObstacle(rules, HitObstacle(rules, c))

\* The collision and progress steps of a car's animate call: s is the
\* controller after update, lp the loop's locals, refs the Simulation's refs,
\* env.hit the number of obstacles within reach of the car.
CarFrame(kind, s, lp, d, env, refs) ==
  LET rules    == CarRules(kind)
      dtF      == Frac(d.num, d.den)
      cd1      == IF lp.collisionCooldown > 0 THEN lp.collisionCooldown - dtF
                  ELSE lp.collisionCooldown
      near     == IF s.position.x = NaN THEN 0 ELSE env.hit
      after    == HitObstacles(rules, [ velocity |-> s.velocity, score |-> refs.score,
                                        cooldown |-> cd1 ], near)
      velocity == after.velocity
      score1   == after.score
      cd2      == after.cooldown
      sinceHit == CASE cd2 > cd1       -> 0
                    [] lp.sinceHit < 0 -> lp.sinceHit
                    [] OTHER           -> Min(rules.cooldown, lp.sinceHit + dtF)
      gain     == IF velocity > rules.above THEN Mul(dtF, rules.rate) ELSE 0
      p1       == IF lp.lTask = rules.task THEN Min(lp.lTotal, lp.lProgress + gain)
                  ELSE lp.lProgress
      done     == lp.lTask = rules.task /\ p1 >= lp.lTotal
      loop     == [lp EXCEPT !.collisionCooldown = cd2,
                             !.lProgress = IF done THEN 0 ELSE p1,
                             !.sinceHit = sinceHit]
      score    == IF done THEN score1 + rules.bonus ELSE score1
      level    == IF done THEN Min(rules.cap, refs.level + 1) ELSE refs.level
  IN  [ pC    |-> [s EXCEPT !.velocity = velocity],
        loop  |-> loop,
        score |-> score,
        level |-> level,
        extra |-> [score |-> score, lap |-> 1, position |-> 1, level |-> level] ]

\* CollectGem without the test that ends the task.
CollectGemCounting(lp, heading) ==
  [lp EXCEPT !.gems = @ - 1, !.lScore = @ + 200, !.lProgress = @ + 1]

\* The body of gems.forEach in the Collect task, for a visible gem within
\* reach.
CollectGem(lp, heading) ==
  LET got == [lp EXCEPT !.gems = @ - 1, !.lScore = @ + 200, !.lProgress = @ + 1]
  IN  IF got.lProgress >= got.lTotal
      THEN [got EXCEPT !.lTask = CUSTOM_TASK_AGILE, !.lProgress = 0,
                       !.lTotal = 180, !.lInitialHeading = heading]
      ELSE got

\* gems.forEach, at most two visible gems lying within reach.
CollectGems(lp, n, heading) ==
  CASE n = 0 -> lp
    [] n = 1 -> CollectGem(lp, heading)
    [] OTHER -> CollectGem(CollectGem(lp, heading), heading)

\* PassArchway with the Speed task following the last archway.
PassArchwayToSpeed(lp) ==
  LET got == [lp EXCEPT !.archways = @ - 1, !.lProgress = @ + 1, !.lScore = @ + 500]
  IN  IF got.lProgress >= got.lTotal
      THEN [got EXCEPT !.lTask = Speed, !.lProgress = 0, !.lTotal = 5,
                       !.gems = 30, !.archways = 10]
      ELSE got

\* The body of archways.forEach in the Checkpoint task, for a visible archway
\* within reach.
PassArchway(lp) ==
  LET got == [lp EXCEPT !.archways = @ - 1, !.lProgress = @ + 1, !.lScore = @ + 500]
  IN  IF got.lProgress >= got.lTotal
      THEN [got EXCEPT !.lTask = Collect, !.lProgress = 0, !.lTotal = 5,
                       !.gems = 30, !.archways = 10]
      ELSE got

\* archways.forEach, at most two visible archways lying within reach.
PassArchways(lp, n) ==
  CASE n = 0 -> lp
    [] n = 1 -> PassArchway(lp)
    [] OTHER -> PassArchway(PassArchway(lp))

\* The U-turn task without the reset above 30 km/h.
AgileTaskAtAnySpeed(lp, s) ==
  LET headingDiff == Mul(Abs(s.heading - lp.lInitialHeading), Div(Frac(180, 1), Pi))
      lp1         == [lp EXCEPT !.lProgress = Min(Floor(headingDiff), 180)]
  IN  IF lp1.lProgress >= 180
      THEN [lp1 EXCEPT !.lTask = Speed, !.lProgress = 0, !.lTotal = 5, !.lScore = @ + 1500]
      ELSE lp1

\* The U-turn task: the heading turned since the task began, in degrees.
AgileTask(lp, s) ==
  IF s.heading = NaN THEN [lp EXCEPT !.lProgress = NaN]
  ELSE
  LET headingDiff == Mul(Abs(s.heading - lp.lInitialHeading), Div(Frac(180, 1), Pi))
      turned      == Min(Floor(headingDiff), 180)
      fast        == Mul(s.velocity, Frac(36, 10)) > Frac(30, 1)
      lp1         == IF fast THEN [lp EXCEPT !.lInitialHeading = s.heading, !.lProgress = 0]
                     ELSE [lp EXCEPT !.lProgress = turned]
  IN  IF lp1.lProgress >= 180
      THEN [lp1 EXCEPT !.lTask = Speed, !.lProgress = 0, !.lTotal = 5, !.lScore = @ + 1500]
      ELSE lp1

\* The Speed task of the mission: seconds spent above 130 km/h.
SpeedTask(lp, s, d) ==
  IF Times(s.velocity, Frac(36, 10)) > Frac(130, 1)
  THEN LET timer == lp.lSpeedTimer + Frac(d.num, d.den)
           lp1   == [lp EXCEPT !.lSpeedTimer = timer, !.lProgress = Floor(timer)]
       IN  IF timer >= Frac(5, 1)
           THEN [lp1 EXCEPT !.lTask = Checkpoint, !.lProgress = 0, !.lTotal = 3,
                            !.lScore = @ + 1000]
           ELSE lp1
  ELSE [lp EXCEPT !.lSpeedTimer = 0, !.lProgress = 0]

\* The mission step of part_002's animate call: env.gems and env.archways
\* count the visible gems and archways within reach of the motorcycle.
MissionFrame(s, lp, d, env, refs) ==
  LET near(n, left) == IF s.position.x = NaN THEN 0 ELSE Min(n, left)
      task == CASE lp.lTask = Collect           -> CollectGems(lp, near(env.gems, lp.gems), s.heading)
                [] lp.lTask = CUSTOM_TASK_AGILE -> AgileTask(lp, s)
                [] lp.lTask = Speed             -> SpeedTask(lp, s, d)
                [] lp.lTask = Checkpoint        -> PassArchways(lp, near(env.archways, lp.archways))
      held == IF lp.lTask = Speed /\ Times(s.velocity, Frac(36, 10)) > Frac(130, 1)
              THEN lp.held + Frac(d.num, d.den)
              ELSE 0
  IN  [ pC    |-> s,
        loop  |-> [task EXCEPT !.held = held],
        score |-> refs.score,
        level |-> refs.level,
        extra |-> [score |-> task.lScore, lap |-> 1, position |-> 1, level |-> 0] ]

\* The basic Simulation's animate call has no step between update and
\* getTelemetry but the scene's.
BasicFrame(s, lp, refs) ==
  [ pC    |-> s,
    loop  |-> lp,
    score |-> refs.score,
    level |-> refs.level,
    extra |-> [score |-> refs.score, lap |-> 1, position |-> 1, level |-> refs.level] ]

\* The Simulations whose cleanup removes the key listeners.
RemovesKeyListeners(kind) == kind \in {"part_001", "MotorcycleController.ts"}

\* The steps of an animate call between update and getTelemetry: s is the
\* controller after update, lp the loop's locals.
FrameOf(kind, s, lp, d, env) ==
  LET refs == [score |-> sim.score, level |-> sim.level]
  IN  CASE kind = "Simulation.tsx" -> BasicFrame(s, lp, refs)
        [] kind = "part_002"       -> MissionFrame(s, lp, d, env, refs)
        [] OTHER                   -> CarFrame(kind, s, lp, d, env, refs)

\* The task fields animate adds to the telemetry record.
TaskFields(kind, lp) ==
  CASE kind = "Simulation.tsx" -> [c \in {} |-> 0]
    [] kind = "part_002"       -> [ currentTask  |-> lp.lTask,
                                    taskProgress |-> lp.lProgress,
                                    taskTotal    |-> lp.lTotal ]
    [] OTHER                   -> [ currentTask  |-> lp.lTask,
                                    taskProgress |-> Floor(lp.lProgress),
                                    taskTotal    |-> Floor(lp.lTotal) ]

\* An animate call that derives its telemetry from the state the previous
\* frame left.
RanStaleTelemetry(ls, i, gap, r, env) ==
  /\ dt' = ClampDt(sim.kind, gap)
  /\ inputs' = ls[i].keys
  /\ random' = r
  /\ locals' = UpdateLocals(variant, pC, dt', inputs', r)
  /\ LET f == FrameOf(sim.kind, Assigned(pC, locals'), ls[i], dt', env)
     IN  /\ pC' = f.pC
         /\ loops' = [ls EXCEPT ![i] = f.loop]
         /\ extra' = f.extra
         /\ sim' = [sim EXCEPT !.score = f.score, !.level = f.level, !.caller = i]
  /\ telemetry' = Spread(TelemetryOf(variant, pC, inputs', extra'),
                         TaskFields(sim.kind, loops'[i]))
  /\ frame' = frame + 1
  /\ lastOp' = "animate"
  /\ repeats' = 0
  /\ UNCHANGED <<variant, twin, start, app>>

\* An update that reads its parameters from the App's state instead of the
\* controller's config field.
RanReadingApp(ls, i, gap, r, env) ==
  /\ dt' = ClampDt(sim.kind, gap)
  /\ inputs' = ls[i].keys
  /\ random' = r
  /\ locals' = UpdateLocals(variant, [pC EXCEPT !.config = app.config], dt', inputs', r)
  /\ LET f == FrameOf(sim.kind, Assigned(pC, locals'), ls[i], dt', env)
     IN  /\ pC' = f.pC
         /\ loops' = [ls EXCEPT ![i] = f.loop]
         /\ extra' = f.extra
         /\ sim' = [sim EXCEPT !.score = f.score, !.level = f.level, !.caller = i]
  /\ telemetry' = Spread(TelemetryOf(variant, pC', inputs', extra'),
                         TaskFields(sim.kind, loops'[i]))
  /\ frame' = frame + 1
  /\ lastOp' = "animate"
  /\ repeats' = 0
  /\ UNCHANGED <<variant, twin, start, app>>

\* Loop i of ls makes an animate call, gap milliseconds after its last.
Ran(ls, i, gap, r, env) ==
  /\ dt' = ClampDt(sim.kind, gap)
  /\ inputs' = ls[i].keys
  /\ random' = r
  /\ locals' = UpdateLocals(variant, pC, dt', inputs', r)
  /\ LET f == FrameOf(sim.kind, Assigned(pC, locals'), ls[i], dt', env)
     IN  /\ pC' = f.pC
         /\ loops' = [ls EXCEPT ![i] = f.loop]
         /\ extra' = f.extra
         /\ sim' = [sim EXCEPT !.score = f.score, !.level = f.level, !.caller = i]
  /\ telemetry' = Spread(TelemetryOf(variant, pC', inputs', extra'),
                         TaskFields(sim.kind, loops'[i]))
  /\ frame' = frame + 1
  /\ lastOp' = "animate"
  /\ repeats' = 0
  /\ UNCHANGED <<variant, twin, start, app>>

\* What lies within reach of the vehicle in a frame: the obstacles and gems
\* are placed at random.
Envs(kind) ==
  CASE kind = "Simulation.tsx" -> {[hit |-> 0, gems |-> 0, archways |-> 0]}
    [] kind = "part_002"       -> [hit : {0}, gems : {0, 2}, archways : {0, 1}]
    [] OTHER                   -> [hit : {0, 1}, gems : {0}, archways : {0}]

\* Milliseconds between two animation frames: a 60 Hz frame, and a stall.
Gaps == {16, 200}

\* Milliseconds between the effect's reading of the clock and its own call
\* of animate: less than the clock resolves, or one tick of it.
FirstGaps == {0, 1}

\* The key maps of a run.
LoopKeys == {NoInputs, [throttle |-> Frac(1, 1), brake |-> 0, steer |-> Frac(1, 1)]}

\* Math.random() in a run of the application.
LoopRandoms == {Frac(999, 1000)}

Prompts == {"", "more grip"}

\* What the tuning request can come back with: a Parameter Set, the text
\* {"maxSpeed":"fast"}, a text that is no JSON, no text, or a failure.
Responses == {"tuned", "malformed", "not JSON", "no text", "failed"}

InitLoop ==
  /\ \E kind \in Kinds :
       sim = [kind |-> kind, score |-> 0, level |-> 1, caller |-> 0]
  /\ variant \in VariantsOf(sim.kind)
  /\ pC = NewController(variant, DefaultConfigOf(variant))
  /\ app = [ config |-> DefaultConfigOf(variant), aiPrompt |-> "",
             isTuning |-> FALSE, response |-> "", errors |-> 0, tunes |-> 0 ]
  /\ loops = <<>>
  /\ twin = pC
  /\ start = pC
  /\ locals = NoLocals
  /\ inputs = NoInputs
  /\ extra = NoExtra
  /\ dt = NoDt
  /\ random = 0
  /\ frame = 0
  /\ lastOp = "new"
  /\ repeats = 0
  /\ telemetry = NoTelemetry

\* The scene effect runs: the cleanup of its previous run, if there was one,
\* and then its body, which ends by calling animate().
effect(gap, r, env) ==
  /\ Len(loops) < MaxEffects
  /\ frame < MaxLoopFrames
  /\ LET cleaned == [i \in DOMAIN loops |->
                       IF RemovesKeyListeners(sim.kind)
                       THEN [loops[i] EXCEPT !.listening = FALSE]
                       ELSE loops[i]]
         ls      == Append(cleaned, NewLoop(sim.kind))
     IN  Ran(ls, Len(ls), gap, r, env)

\* requestAnimationFrame calls the animate of loop i.
animate(i, gap, r, env) ==
  /\ frame < MaxLoopFrames
  /\ i \in DOMAIN loops
  /\ Ran(loops, i, gap, r, env)

\* The keydown and keyup listeners leave the key map at in.
onKey(in) ==
  /\ \E i \in DOMAIN loops : loops[i].listening /\ loops[i].keys # in
  /\ loops' = [i \in DOMAIN loops |->
                 IF loops[i].listening THEN [loops[i] EXCEPT !.keys = in]
                 ELSE loops[i]]
  /\ UNCHANGED <<variant, pC, twin, start, locals, inputs, extra, dt, random,
                 frame, lastOp, repeats, telemetry, app, sim>>

\* A config effect that constructs a new controller from the new config.
configEffectRecreating ==
  /\ pC.config # app.config
  /\ pC' = NewController(variant, app.config)
  /\ UNCHANGED <<variant, twin, start, locals, inputs, extra, dt, random,
                 frame, lastOp, repeats, telemetry, app, sim, loops>>

\* The config effect of the Simulation.
configEffect ==
  /\ pC.config # app.config
  /\ pC' = [pC EXCEPT !.config = app.config]
  /\ UNCHANGED <<variant, twin, start, locals, inputs, extra, dt, random,
                 frame, lastOp, repeats, telemetry, app, sim, loops>>

\* The prompt field's onChange.
setAiPrompt(p) ==
  /\ p # app.aiPrompt
  /\ app' = [app EXCEPT !.aiPrompt = p]
  /\ UNCHANGED <<variant, pC, twin, start, locals, inputs, extra, dt, random,
                 frame, lastOp, repeats, telemetry, sim, loops>>

\* aiPrompt.trim(), of the prompts of Prompts and of one made of spaces.
Trim(p) == IF p = "   " THEN "" ELSE p

\* handleAiTune up to its await; the button is disabled while isTuning or
\* while the prompt is blank.
handleAiTune ==
  /\ ~app.isTuning
  /\ Trim(app.aiPrompt) # ""
  /\ app.tunes < MaxTunes
  /\ app' = [app EXCEPT !.isTuning = TRUE, !.tunes = @ + 1]
  /\ lastOp' = "handleAiTune"
  /\ UNCHANGED <<variant, pC, twin, start, locals, inputs, extra, dt, random,
                 frame, repeats, telemetry, sim, loops>>

\* handleAiTune called with a blank prompt: it returns at its first line.
handleAiTuneBlank ==
  /\ Trim(app.aiPrompt) = ""
  /\ lastOp' = "handleAiTune"
  /\ UNCHANGED <<variant, pC, twin, start, locals, inputs, extra, dt, random,
                 frame, repeats, telemetry, app, sim, loops>>

\* tuneResponse without the finally: a failure leaves isTuning set.
tuneResponseNoFinally(resp) ==
  /\ app.isTuning
  /\ app' = CASE resp = "tuned" ->
                  [app EXCEPT !.config = TunedConfigOf(variant), !.aiPrompt = "",
                              !.isTuning = FALSE, !.response = resp]
              [] resp = "launch" ->
                  [app EXCEPT !.config = LaunchConfigOf(variant), !.aiPrompt = "",
                              !.isTuning = FALSE, !.response = resp]
              [] resp = "malformed" ->
                  [app EXCEPT !.config = MALFORMED_CONFIG, !.aiPrompt = "",
                              !.isTuning = FALSE, !.response = resp]
              [] resp = "no text" ->
                  [app EXCEPT !.aiPrompt = "", !.isTuning = FALSE, !.response = resp]
              [] OTHER ->
                  [app EXCEPT !.errors = @ + 1, !.response = resp]
  /\ lastOp' = "tuneResponse"
  /\ UNCHANGED <<variant, pC, twin, start, locals, inputs, extra, dt, random,
                 frame, repeats, telemetry, sim, loops>>

\* handleAiTune from its await on: the try, the catch and the finally.
tuneResponse(resp) ==
  /\ app.isTuning
  /\ app' = CASE resp = "tuned" ->
                  [app EXCEPT !.config = TunedConfigOf(variant), !.aiPrompt = "",
                              !.isTuning = FALSE, !.response = resp]
              [] resp = "launch" ->
                  [app EXCEPT !.config = LaunchConfigOf(variant), !.aiPrompt = "",
                              !.isTuning = FALSE, !.response = resp]
              [] resp = "malformed" ->
                  [app EXCEPT !.config = MALFORMED_CONFIG, !.aiPrompt = "",
                              !.isTuning = FALSE, !.response = resp]
              [] resp = "no text" ->
                  [app EXCEPT !.aiPrompt = "", !.isTuning = FALSE, !.response = resp]
              [] OTHER ->
                  [app EXCEPT !.errors = @ + 1, !.isTuning = FALSE, !.response = resp]
  /\ lastOp' = "tuneResponse"
  /\ UNCHANGED <<variant, pC, twin, start, locals, inputs, extra, dt, random,
                 frame, repeats, telemetry, sim, loops>>

NextLoop ==
  \/ \E gap \in FirstGaps, r \in LoopRandoms, env \in Envs(sim.kind) :
       effect(gap, r, env)
  \/ \E i \in DOMAIN loops, gap \in Gaps, r \in LoopRandoms,
        env \in Envs(sim.kind) : animate(i, gap, r, env)
  \/ \E in \in LoopKeys : onKey(in)
  \/ configEffect
  \/ \E p \in Prompts : setAiPrompt(p)
  \/ handleAiTune
  \/ \E resp \in Responses : tuneResponse(resp)

SpecLoop == InitLoop /\ [][NextLoop]_vars

(***************************************************************************)
(* The replacement of the Parameter Set while the loop runs: the prompt is *)
(* typed already, and the tuning request, its response, the config effect, *)
(* the keys and the animation frames interleave freely.                    *)
(***************************************************************************)
InitReplace ==
  /\ \E kind \in Kinds :
       sim = [kind |-> kind, score |-> 0, level |-> 1, caller |-> 0]
  /\ variant \in VariantsOf(sim.kind)
  /\ pC = NewController(variant, DefaultConfigOf(variant))
  /\ app = [ config |-> DefaultConfigOf(variant), aiPrompt |-> "more grip",
             isTuning |-> FALSE, response |-> "", errors |-> 0, tunes |-> 0 ]
  /\ loops = <<>>
  /\ twin = pC
  /\ start = pC
  /\ locals = NoLocals
  /\ inputs = NoInputs
  /\ extra = NoExtra
  /\ dt = NoDt
  /\ random = 0
  /\ frame = 0
  /\ lastOp = "new"
  /\ repeats = 0
  /\ telemetry = NoTelemetry

\* Nothing lies within reach of the vehicle.
ClearRoad == [hit |-> 0, gems |-> 0, archways |-> 0]

NextReplace ==
  \/ \E gap \in FirstGaps, r \in LoopRandoms : effect(gap, r, ClearRoad)
  \/ \E i \in DOMAIN loops, gap \in Gaps, r \in LoopRandoms :
       animate(i, gap, r, ClearRoad)
  \/ \E in \in LoopKeys : onKey(in)
  \/ configEffect
  \/ handleAiTune
  \/ \E resp \in Responses : tuneResponse(resp)

SpecReplace == InitReplace /\ [][NextReplace]_vars

(***************************************************************************)
(* The loop on a road with obstacles, gems and archways, with the default  *)
(* Parameter Set throughout.                                               *)
(***************************************************************************)
NextCollide ==
  \/ \E gap \in FirstGaps, r \in LoopRandoms, env \in Envs(sim.kind) :
       effect(gap, r, env)
  \/ \E i \in DOMAIN loops, gap \in Gaps, r \in LoopRandoms,
        env \in Envs(sim.kind) : animate(i, gap, r, env)
  \/ \E in \in LoopKeys : onKey(in)

SpecCollide == InitLoop /\ [][NextCollide]_vars

(***************************************************************************)
(* The tuning panel by itself: prompts typed, blank ones among them, the   *)
(* button pressed, every kind of response, and the config effect.          *)
(***************************************************************************)
TunePrompts == Prompts \cup {"   "}

TuneResponses == Responses \cup {"launch"}

NextTune ==
  \/ \E p \in TunePrompts : setAiPrompt(p)
  \/ handleAiTune
  \/ handleAiTuneBlank
  \/ \E resp \in TuneResponses : tuneResponse(resp)
  \/ configEffect

SpecTune == InitLoop /\ [][NextTune]_vars

(***************************************************************************)
(* A whole ride through the tasks: one loop, a steady 20 frames a second,  *)
(* the default Parameter Set, and a rider who does what the task display   *)
(* asks for. On the motorcycle's mission the gems and archways come within *)
(* reach one or two at a time, and the rider may have the motorcycle tuned *)
(* before setting off; the cars drive flat out on a clear road until the   *)
(* level is won.                                                           *)
(***************************************************************************)
\* Bounds: the animate calls of a ride on the motorcycle's mission, and of a
\* ride in a car.
MissionFrames == 160

LevelFrames == 1100

MissionKinds == {"part_001", "part_002", "MotorcycleController.ts"}

RideFrames(kind) == IF kind = "part_002" THEN MissionFrames ELSE LevelFrames

\* Milliseconds between two animation frames of a ride.
RideGaps == {50}

\* The keys the rider holds: the throttle in a car and on the Speed task,
\* full steer on the U-turn task, with the brake above 30 km/h, and none
\* while gems or archways are to be gathered.
Rider(kind, lp, s) ==
  CASE kind # "part_002" -> FullThrottle
    [] lp.lTask = Speed   -> FullThrottle
    [] lp.lTask = CUSTOM_TASK_AGILE ->
         IF Mul(s.velocity, Frac(36, 10)) > Frac(30, 1)
         THEN [throttle |-> 0, brake |-> Frac(1, 1), steer |-> Frac(1, 1)]
         ELSE [throttle |-> 0, brake |-> 0, steer |-> Frac(1, 1)]
    [] OTHER -> NoInputs

\* What comes within reach on a frame of the ride.
RideEnvs(kind, task) ==
  CASE kind # "part_002"  -> {ClearRoad}
    [] task = Collect     -> [hit : {0}, gems : {1, 2}, archways : {0}]
    [] task = Checkpoint  -> [hit : {0}, gems : {0}, archways : {1, 2}]
    [] OTHER              -> {ClearRoad}

InitMission ==
  /\ InitReplace
  /\ sim.kind \in MissionKinds

\* The scene effect runs once.
mount(gap, r, env) ==
  /\ loops = <<>>
  /\ effect(gap, r, env)

\* The rider moves to the keys the task asks for.
steerKeys ==
  /\ loops # <<>>
  /\ onKey(Rider(sim.kind, loops[1], pC))

\* requestAnimationFrame calls animate while the rider holds those keys; the
\* rider waits for a tuning under way to take effect.
ride(gap, r, env) ==
  /\ loops # <<>>
  /\ frame < RideFrames(sim.kind)
  /\ ~app.isTuning
  /\ pC.config = app.config
  /\ loops[1].keys = Rider(sim.kind, loops[1], pC)
  /\ Ran(loops, 1, gap, r, env)

NextMission ==
  \/ \E gap \in FirstGaps, r \in LoopRandoms, env \in RideEnvs(sim.kind, Collect) :
       mount(gap, r, env)
  \/ steerKeys
  \/ frame = 1 /\ sim.kind = "part_002" /\ handleAiTune
  \/ tuneResponse("launch")
  \/ configEffect
  \/ \E gap \in RideGaps, r \in LoopRandoms, i \in DOMAIN loops :
       \E env \in RideEnvs(sim.kind, loops[i].lTask) : ride(gap, r, env)

SpecMission == InitMission /\ [][NextMission]_vars

(***************************************************************************)
(* A car driven flat out into the obstacles: one loop, a steady 20 frames  *)
(* a second, and on any frame either no obstacle or two within reach.      *)
(***************************************************************************)
\* Bound: the animate calls of a run of SpecCooldown.
CooldownFrames == 40

CarKinds == {"part_001", "MotorcycleController.ts"}

CrashEnvs == [hit : {0, 2}, gems : {0}, archways : {0}]

InitCooldown ==
  /\ InitLoop
  /\ sim.kind \in CarKinds

\* requestAnimationFrame calls animate with the throttle held.
drive(gap, r, env) ==
  /\ loops # <<>>
  /\ frame < CooldownFrames
  /\ loops[1].keys = FullThrottle
  /\ Ran(loops, 1, gap, r, env)

NextCooldown ==
  \/ \E gap \in FirstGaps, r \in LoopRandoms, env \in CrashEnvs : mount(gap, r, env)
  \/ steerKeys
  \/ \E gap \in RideGaps, r \in LoopRandoms, env \in CrashEnvs : drive(gap, r, env)

SpecCooldown == InitCooldown /\ [][NextCooldown]_vars

(***************************************************************************)
(* Properties of the controller driven directly.                           *)
(***************************************************************************)

\* C1: after every update, with any inputs in range and any dt > 0,
\* 0 <= velocity <= config.maxSpeed, in each of the three classes.
VelocityInRange ==
  lastOp = "update" => (0 <= pC.velocity /\ pC.velocity <= pC.config.maxSpeed)

\* The last of the run's updates was made with throttle and brake both 1 and
\* full steer, and left the controller moving.
VelocityInRangeWitness ==
  /\ lastOp = "update"
  /\ frame = MaxFrames
  /\ inputs.throttle = Frac(1, 1) /\ inputs.brake = Frac(1, 1) /\ inputs.steer # 0
  /\ pC.velocity > 0

\* C4 (as claimed): the normalized speed an update used lies in [0, 1].
NormalizedSpeedInUnit ==
  lastOp = "update" => (0 <= locals.normalizedSpeed /\ locals.normalizedSpeed <= Frac(1, 1))

\* C10: two controllers started alike with heading 0 and roll 0 and stepped
\* with the same dt, throttle and brake and opposite steer have, after every
\* update, equal velocities and opposite headings and roll (lean) angles.
MirrorSymmetry ==
  /\ twin.velocity = pC.velocity
  /\ twin.heading = -pC.heading
  /\ RollOf(twin) = -RollOf(pC)

\* C10 witness: after two steered updates the heading and the roll are not 0.
MirrorSymmetryWitness ==
  /\ frame = MaxFrames
  /\ inputs.steer # 0
  /\ pC.heading # 0
  /\ RollOf(pC) # 0
  /\ pC.velocity # start.velocity

(***************************************************************************)
(* Properties of the controller read by its caller.                        *)
(***************************************************************************)
\* C7: a getTelemetry call leaves the whole controller (Vehicle State,
\* modifiers and config) as it was, and a call that follows another with the
\* same inputs and extras returns the same record.
TelemetryIsPure ==
  [][lastOp' = "getTelemetry" =>
       /\ pC' = pC
       /\ (lastOp = "getTelemetry" /\ inputs' = inputs /\ extra' = extra)
            => telemetry' = telemetry]_vars

\* A moving controller has been read twice in a row.
TelemetryIsPureWitness ==
  /\ lastOp = "getTelemetry"
  /\ repeats = MaxRepeats
  /\ frame > 0
  /\ pC.velocity > 0
  /\ telemetry.speed > 0

\* The inputs of the call are in the record.
TelemetryEchoesInputs ==
  lastOp = "getTelemetry" =>
    /\ telemetry.throttle = inputs.throttle
    /\ telemetry.brake = inputs.brake
    /\ telemetry.steering = inputs.steer

\* C15, as claimed: in every variant the record of a getTelemetry call
\* carries throttle, brake and steering equal to the inputs of the call and
\* score, lap, position and level equal to its extras.
TelemetryEchoesInputsAndExtras ==
  lastOp = "getTelemetry" =>
    /\ TelemetryEchoesInputs
    /\ \A f \in {"score", "lap", "position", "level"} :
         f \in DOMAIN telemetry /\ telemetry[f] = extra[f]

\* The same without level for the motorcycle.
TelemetryEchoesKnownExtras ==
  lastOp = "getTelemetry" =>
    \A f \in {"score", "lap", "position"} \cup (IF IsCar(variant) THEN {"level"} ELSE {}) :
      f \in DOMAIN telemetry /\ telemetry[f] = extra[f]

(***************************************************************************)
(* Properties of the controller under held inputs.                         *)
(***************************************************************************)
\* The run began with a freshly constructed controller.
Fresh == start = NewController(variant, start.config)

PitchOf(s) == IF "bodyPitch" \in DOMAIN s THEN s.bodyPitch ELSE 0

\* C2, as claimed: a fresh controller given zero inputs keeps every state
\* variable, the suspension's and position.y included, through any number of
\* updates.
RestStateUnchanged == (Fresh /\ inputs = NoInputs) => pC = start

\* C2, amended: a fresh controller given zero inputs keeps velocity, heading,
\* roll or lean, pitch, position.x and position.z; the second CarController
\* keeps its whole state.
RestKinematicsUnchanged ==
  (Fresh /\ inputs = NoInputs) =>
    /\ pC.velocity = 0
    /\ pC.heading = 0
    /\ RollOf(pC) = 0
    /\ PitchOf(pC) = 0
    /\ pC.position.x = 0
    /\ pC.position.z = 0
    /\ variant = "CarController2" => pC = start

\* A fresh controller has idled to the end of the run and its suspension has
\* moved.
RestKinematicsWitness ==
  /\ Fresh
  /\ inputs = NoInputs
  /\ frame = HoldFrames
  /\ pC.verticalOffset # 0
  /\ pC.position.y # start.position.y

\* The run of C8: a fresh car with the default Parameter Set, full throttle,
\* dt = 1/60.
ThrottleRun ==
  /\ IsCar(variant)
  /\ start = NewController(variant, DEFAULT_CONFIG)
  /\ inputs = FullThrottle
  /\ dt = [num |-> 1, den |-> 60]

\* C8, as claimed: over the 120 updates position.z decreases at every update
\* and the velocity ends strictly between 0 and maxSpeed.
ThrottleRunZDecreases ==
  [][(ThrottleRun /\ frame' <= RunFrames) =>
       /\ pC'.position.z < pC.position.z
       /\ frame' = RunFrames =>
            (0 < pC'.velocity /\ pC'.velocity < pC'.config.maxSpeed)]_vars

\* C8, amended: over the 120 updates position.z increases at every update
\* and the velocity ends strictly between 0 and maxSpeed.
ThrottleRunZIncreases ==
  [][(ThrottleRun /\ frame' <= RunFrames) =>
       /\ pC'.position.z > pC.position.z
       /\ frame' = RunFrames =>
            (0 < pC'.velocity /\ pC'.velocity < pC'.config.maxSpeed)]_vars

\* The 120th update of the run has been made.
ThrottleRunWitness ==
  /\ ThrottleRun
  /\ frame = RunFrames
  /\ 0 < pC.velocity
  /\ pC.velocity < pC.config.maxSpeed
  /\ pC.position.z > 0

\* One more update of s with the held inputs would leave its velocity as it is.
FixedPoint(s) ==
  UpdateLocals(variant, s, dt, inputs, random).velocity = s.velocity

\* C9: with throttle 1, brake 0 and steer 0 held at a constant dt, from a
\* velocity below the drag equilibrium, the velocity never decreases from one
\* update to the next, never exceeds maxSpeed, has reached a fixed point by
\* the end of the run, and stays at a fixed point once there.
ThrottleHeldConverges ==
  [][inputs = FullThrottle =>
       /\ pC'.velocity >= pC.velocity
       /\ pC'.velocity <= pC'.config.maxSpeed
       /\ frame' = HoldFrames => FixedPoint(pC')
       /\ FixedPoint(pC) => pC'.velocity = pC.velocity]_vars

\* A run that began below the drag equilibrium has climbed to a fixed point
\* below maxSpeed.
ThrottleHeldWitness ==
  /\ inputs = FullThrottle
  /\ frame = HoldFrames
  /\ start.velocity < pC.velocity
  /\ pC.velocity < pC.config.maxSpeed
  /\ FixedPoint(pC)

(***************************************************************************)
(* Properties of the application.                                          *)
(***************************************************************************)
\* C3, as claimed: when the tuning request comes back with a malformed
\* Parameter Set, the App and the controller keep a well-formed config, the
\* one they had, and an error is signalled.
MalformedTuningRejected ==
  app.response = "malformed" =>
    /\ app.config = DefaultConfigOf(variant)
    /\ WellFormed(pC.config)
    /\ app.errors > 0

\* C5, as claimed: update is called by one animation loop only, the one the
\* latest run of the scene effect started.
SingleLoopUpdates == frame > 0 => sim.caller = Len(loops)

\* C6, as claimed: every dt an animate call passes to update satisfies
\* 0 < dt <= 0.05.
LoopDtInRange == frame > 0 => (0 < dt.num /\ dt.num * 20 <= dt.den)

(***************************************************************************)
(* Properties of the suspension.                                           *)
(***************************************************************************)
\* The distance of the offset from the ground height of the last update.
SuspensionError == Abs(locals.groundLevel - pC.verticalOffset)

\* The largest distance from the ground height a run can start with.
StartError == Frac(5, 10) + Frac(5, 100)

\* C11, as claimed: with positive stiffness and damping, a standing vehicle
\* and dt <= 0.05, the offset never moves further from the ground height
\* than twice the distance a run can start with, and at the end of the run
\* the offset is within a hundredth of the ground height and the vertical
\* velocity within a tenth of 0.
SuspensionSettles ==
  frame > 0 =>
    /\ SuspensionError <= 2 * StartError
    /\ frame = SuspensionFrames =>
         (SuspensionError <= Frac(1, 100) /\ Abs(pC.verticalVelocity) <= Frac(1, 10))

\* The same for the default Parameter Sets only.
SuspensionSettlesDefault ==
  (frame > 0 /\ pC.config = DefaultConfigOf(variant)) =>
    /\ SuspensionError <= 2 * StartError
    /\ frame = SuspensionFrames =>
         (SuspensionError <= Frac(1, 100) /\ Abs(pC.verticalVelocity) <= Frac(1, 10))

(***************************************************************************)
(* Properties of tractionModifier.                                         *)
(***************************************************************************)
\* C12, as claimed: in every variant, with tractionModifier = 0 an update
\* gains no speed (whatever the throttle) and leaves heading unchanged
\* (whatever the steer).
TractionScalesAccelAndSteer ==
  (lastOp = "update" /\ pC.tractionModifier = 0) =>
    (pC.velocity <= start.velocity /\ pC.heading = start.heading)

\* The acceleration half alone, in every variant.
TractionScalesAccel ==
  (lastOp = "update" /\ pC.tractionModifier = 0) => pC.velocity <= start.velocity

\* Both halves in the variants whose steerLimit is multiplied by
\* tractionModifier.
TractionScalesSteer ==
  (lastOp = "update" /\ pC.tractionModifier = 0 /\ variant # "CarController2") =>
    pC.heading = start.heading

(***************************************************************************)
(* Properties of the replacement of the Parameter Set.                     *)
(***************************************************************************)
\* C13: every parameter an update reads comes from the one Parameter Set the
\* controller holds when the update starts, also while a replacement is
\* pending in the App's state; the controller's config changes only in a
\* step that runs no update, and an update leaves it as it is.
UpdateReadsOneConfig ==
  [][ /\ frame' # frame =>
           /\ pC'.config = pC.config
           /\ locals' = UpdateLocals(variant, pC, dt', inputs', random')
      /\ pC'.config # pC.config =>
           /\ frame' = frame
           /\ locals' = locals
           /\ pC'.config = app.config ]_vars

\* An animation frame has run an update between the tuning response and the
\* config effect.
UpdateReadsOneConfigWitness ==
  /\ lastOp = "animate"
  /\ app.config = TunedConfigOf(variant)
  /\ pC.config = DefaultConfigOf(variant)
  /\ pC.velocity > 0

\* C18: a step that replaces the controller's Parameter Set changes nothing
\* else of the controller (the Vehicle State and the modifiers are those of
\* the same instance) nor of the running loops, and every update, the first
\* after a replacement included, moves the vehicle on from the position the
\* last update left.
ReplacementKeepsState ==
  [][ /\ pC'.config # pC.config =>
           /\ pC' = [pC EXCEPT !.config = app.config]
           /\ loops' = loops
           /\ sim' = sim
      /\ (frame' # frame /\ ~Poisoned(pC)) =>
           /\ pC'.position.x =
                pC.position.x + MulDt(Mul(Sin(pC'.heading), locals'.velocity), dt')
           /\ pC'.position.z =
                pC.position.z + MulDt(Mul(Cos(pC'.heading), locals'.velocity), dt') ]_vars

\* A car that had moved under the default Parameter Set has made an update
\* under the tuned one (maxSpeed 30: only then can normalizedSpeed exceed
\* 0.1 within the frames of a run) and has moved on.
ReplacementKeepsStateWitness ==
  /\ lastOp = "animate"
  /\ IsCar(variant)
  /\ pC.config = TunedConfigOf(variant)
  /\ locals.normalizedSpeed > Frac(1, 10)
  /\ frame >= 2
  /\ pC.position.z > MulDt(locals.velocity, dt)

(***************************************************************************)
(* Properties of the collision response.                                   *)
(***************************************************************************)
\* C14: in a simulation loop, whatever an animate call writes to the Vehicle
\* State after its update is a multiplication of velocity by 0.4 or 0.35 in
\* a car's loop: every other state variable is as update left it, velocity
\* does not increase and stays in [0, maxSpeed]; no other step of the loop
\* writes to the controller.
CollisionOnlyScalesVelocity ==
  [][ /\ frame' # frame =>
           LET u == Assigned(pC, locals')
           IN  /\ [pC' EXCEPT !.velocity = u.velocity] = u
               /\ pC'.velocity # u.velocity =>
                    /\ IsCar(variant)
                    /\ pC'.velocity \in {Mul(u.velocity, Frac(4, 10)),
                                         Mul(u.velocity, Frac(35, 100))}
               /\ pC'.velocity <= u.velocity
               /\ 0 <= pC'.velocity
               /\ pC'.velocity <= pC'.config.maxSpeed
      /\ frame' = frame => pC' = pC ]_vars

\* A moving car has just hit an obstacle.
CollisionWitness ==
  /\ lastOp = "animate"
  /\ IsCar(variant)
  /\ locals.velocity > Frac(1, 1)
  /\ pC.velocity > 0
  /\ pC.velocity < locals.velocity

(***************************************************************************)
(* Properties of the gauges.                                               *)
(***************************************************************************)
\* The record getTelemetry returns at speed w and throttle th.
GaugeAt(w, th) ==
  TelemetryOf(variant, [pC EXCEPT !.velocity = w],
              [throttle |-> th, brake |-> 0, steer |-> 0], extra)

\* C16: at every velocity in [0, maxSpeed] the gear is at least 1 and no
\* smaller than at any lower velocity; in the second car it is 1 plus the
\* number of thresholds among 40, 80, 130, 190, 260 strictly below the speed
\* in km/h, so between 1 and 6; on the motorcycle it is floor(velocity/15)+1.
GearLaw ==
  lastOp = "getTelemetry" =>
    /\ telemetry.gear >= 1
    /\ \A w \in GaugeVelocities(variant) :
         w <= pC.velocity => GaugeAt(w, inputs.throttle).gear <= telemetry.gear
    /\ variant = "CarController2" =>
         /\ telemetry.gear =
              1 + Cardinality({b \in {40, 80, 130, 190, 260} :
                                 Frac(b, 1) < Mul(pC.velocity, Frac(36, 10))})
         /\ telemetry.gear \in 1..6
    /\ variant = "MotorcycleController" =>
         /\ Frac(15, 1) * (telemetry.gear - 1) <= pC.velocity
         /\ pC.velocity < Frac(15, 1) * telemetry.gear

\* The second car has been read at exactly 40 km/h, still in first gear, and
\* the top gear exists.
GearLawWitness ==
  /\ lastOp = "getTelemetry"
  /\ variant = "CarController2"
  /\ Mul(pC.velocity, Frac(36, 10)) = Frac(40, 1)
  /\ telemetry.gear = 1
  /\ GaugeAt(pC.config.maxSpeed, 0).gear = 6

\* C17: at every velocity in [0, maxSpeed] and throttle in [0, 1] the rpm
\* lies between the variant's base and its redline (1000 and 8500 for the
\* first car, 2000 and 9000 for the second car and the motorcycle), and in
\* the second car it is no smaller than at any lower throttle at the same
\* velocity.
RpmLaw ==
  lastOp = "getTelemetry" =>
    /\ variant = "CarController" =>
         (Frac(1000, 1) <= telemetry.rpm /\ telemetry.rpm <= Frac(8500, 1))
    /\ variant = "MotorcycleController" =>
         (Frac(2000, 1) <= telemetry.rpm /\ telemetry.rpm <= Frac(9000, 1))
    /\ variant = "CarController2" =>
         /\ 2000 <= telemetry.rpm
         /\ telemetry.rpm <= 9000
         /\ \A in \in GaugeInputs :
              in.throttle <= inputs.throttle =>
                GaugeAt(pC.velocity, in.throttle).rpm <= telemetry.rpm

\* The second car has been read at maxSpeed with full throttle, where the
\* redline cuts the rpm off, and reads less at rest with no throttle than
\* with full throttle.
RpmLawWitness ==
  /\ lastOp = "getTelemetry"
  /\ variant = "CarController2"
  /\ pC.velocity = pC.config.maxSpeed
  /\ inputs.throttle = Frac(1, 1)
  /\ telemetry.rpm = 9000
  /\ GaugeAt(0, 0).rpm < GaugeAt(0, Frac(1, 1)).rpm

HeadingChangeAtCap(v, u, d) ==
  IF v = "CarController"
  THEN Abs(MulDt(Mul(Mul(Mul(u.effectiveSteer, Frac(28, 10)), pC.config.steeringSensitivity),
                     Frac(20, 1)), d))
  ELSE Abs(MulDt(Mul(Mul(u.effectiveSteer, Frac(32, 10)),
                     Div(Frac(35, 1), Frac(20, 1))), d))

\* C20: in both cars an update that ends with velocity 0 leaves heading and
\* position x and z as they were, whatever the steer, and what the heading
\* integrates in place of the velocity is at most the velocity and at most
\* the cap (20 in the first car, 35 in the second), so the heading changes
\* by no more than it would at the cap.
TurnCapLaw ==
  [][IsCar(variant) =>
       /\ pC'.velocity = 0 =>
            /\ pC'.heading = pC.heading
            /\ pC'.position.x = pC.position.x
            /\ pC'.position.z = pC.position.z
       /\ locals'.turnCap <= pC'.velocity
       /\ locals'.turnCap <= (IF variant = "CarController" THEN Frac(20, 1) ELSE Frac(35, 1))
       /\ Abs(pC'.heading - pC.heading) <= HeadingChangeAtCap(variant, locals', dt')]_vars

\* A car has been steered in an update that ended at velocity 0.
TurnCapLawWitness ==
  /\ lastOp = "update"
  /\ IsCar(variant)
  /\ inputs.steer # 0
  /\ inputs.throttle > 0
  /\ pC.velocity = 0
  /\ pC.heading = start.heading

(***************************************************************************)
(* Properties of the attitude angles.                                      *)
(***************************************************************************)
\* x lies between a and b, ends included.
Between(x, a, b) == Min(a, b) <= x /\ x <= Max(a, b)

\* C21: in both cars the pitch target of an update has the sign of its net
\* acceleration: below 0 with the brake held and no throttle, above 0 when
\* the throttle's acceleration exceeds the braking terms, 0 at rest with no
\* inputs; and with angularDamping * dt <= 1 the update leaves bodyPitch
\* between its old value and the target, no further from the target than it
\* was.
PitchFollowsNetAccel ==
  [][IsCar(variant) =>
       /\ (inputs'.brake > 0 /\ inputs'.throttle = 0) => locals'.targetPitch < 0
       /\ locals'.netAccel > 0 => locals'.targetPitch > 0
       /\ locals'.netAccel < 0 => locals'.targetPitch < 0
       /\ (pC.velocity = 0 /\ inputs' = NoInputs) => locals'.targetPitch = 0
       /\ MulDt(pC.config.angularDamping, dt') <= Frac(1, 1) =>
            /\ Between(pC'.bodyPitch, pC.bodyPitch, locals'.targetPitch)
            /\ Abs(locals'.targetPitch - pC'.bodyPitch)
                 <= Abs(locals'.targetPitch - pC.bodyPitch)]_vars

\* A car that pitched up under throttle has braked with no throttle: the
\* target is below 0 and bodyPitch has come down towards it.
PitchFollowsNetAccelWitness ==
  /\ lastOp = "update"
  /\ IsCar(variant)
  /\ frame = 2
  /\ inputs.brake > 0
  /\ inputs.throttle = 0
  /\ locals.targetPitch < 0
  /\ locals.targetPitch < pC.bodyPitch
  /\ pC.bodyPitch > 0

\* C22: an update of the motorcycle that ends at velocity 0 has lean target
\* 0 whatever the steer, leaves a lean angle of 0 at 0, and still turns the
\* heading when steered.
LeanZeroAtRest ==
  [][(variant = "MotorcycleController" /\ pC'.velocity = 0) =>
       /\ locals'.targetRoll = 0
       /\ pC.leanAngle = 0 => pC'.leanAngle = 0
       /\ inputs'.steer # 0 => pC'.heading # pC.heading]_vars

\* A motorcycle at rest has been steered twice: upright, and turned.
LeanZeroAtRestWitness ==
  /\ lastOp = "update"
  /\ variant = "MotorcycleController"
  /\ frame = 2
  /\ start.velocity = 0
  /\ pC.velocity = 0
  /\ inputs.steer # 0
  /\ pC.leanAngle = 0
  /\ pC.heading < -Frac(1, 10)

\* angularDamping, times stabilityModifier on the motorcycle.
DampingOf(s) ==
  IF "stabilityModifier" \in DOMAIN s
  THEN Mul(s.config.angularDamping, s.stabilityModifier)
  ELSE s.config.angularDamping

FrameOrder ==
  [][frame' # frame =>
       /\ frame' = frame + 1
       /\ locals' = UpdateLocals(variant, pC, dt', inputs', random')
       /\ pC'.velocity <= locals'.velocity
       /\ LET record == TelemetryOf(variant, pC', inputs', extra')
          IN  \A f \in DOMAIN record : telemetry'[f] = record[f]]_vars

\* A car's frame had a collision, and the record shows the speed after it,
\* below the speed update had computed.
FrameOrderWitness ==
  /\ lastOp = "animate"
  /\ IsCar(variant)
  /\ pC.velocity < locals.velocity
  /\ telemetry.speed = Round(Mul(pC.velocity, Frac(36, 10)))
  /\ telemetry.speed < Round(Mul(locals.velocity, Frac(36, 10)))
  /\ telemetry.throttle = inputs.throttle

(***************************************************************************)
(* Properties of the tasks.                                                *)
(***************************************************************************)

\* C25: on the motorcycle's mission the Speed task is left only for
\* Checkpoint with 1000 points, and only on a frame that ends at least 5
\* seconds of frames, each above 130 km/h, since the Speed task last became
\* current: on the first pass through the tasks and on every later one.
SpeedTaskTakesFiveSeconds ==
  [][\A i \in DOMAIN loops :
       (sim.kind = "part_002" /\ loops[i].lTask = Speed /\ loops'[i].lTask # Speed)
         => /\ loops'[i].lTask = Checkpoint
            /\ loops'[i].lScore = loops[i].lScore + 1000
            /\ loops'[i].held >= Frac(5, 1)]_vars

\* The same of the first pass alone, before any archway has been passed.
SpeedTaskTakesFiveSecondsFirstPass ==
  [][\A i \in DOMAIN loops :
       (sim.kind = "part_002" /\ loops[i].lTask = Speed /\ loops'[i].lTask # Speed
          /\ loops[i].lScore < 3500)
         => /\ loops'[i].lTask = Checkpoint
            /\ loops'[i].lScore = loops[i].lScore + 1000
            /\ loops'[i].held >= Frac(5, 1)]_vars

\* The angle between the heading of s and the heading ref, in degrees.
TurnedFrom(s, ref) == Mul(Abs(s.heading - ref), Div(Frac(180, 1), Pi))

KphOf(s) == Mul(s.velocity, Frac(36, 10))

\* C26: on the motorcycle's mission the U-turn task is left only for Speed
\* with 1500 points, and only on a frame that ends at 30 km/h or less with
\* the heading at least 180 degrees from the reference heading; the
\* reference is the heading of the frame on which the task began and is
\* replaced only by the heading of a frame above 30 km/h; such a frame leaves
\* the progress at 0 and the task in place.
UTurnOnlyWhenSlow ==
  [][\A i \in DOMAIN loops :
       (sim.kind = "part_002" /\ frame' # frame) =>
         LET lp == loops[i]  lq == loops'[i]
         IN  /\ (lp.lTask = Collect /\ lq.lTask = CUSTOM_TASK_AGILE)
                   => lq.lInitialHeading = pC'.heading
             /\ (lp.lTask = CUSTOM_TASK_AGILE /\ KphOf(pC') > Frac(30, 1))
                   => /\ lq.lTask = CUSTOM_TASK_AGILE
                      /\ lq.lProgress = 0
                      /\ lq.lInitialHeading = pC'.heading
                      /\ lq.lScore = lp.lScore
             /\ (lp.lTask = CUSTOM_TASK_AGILE /\ KphOf(pC') <= Frac(30, 1))
                   => lq.lInitialHeading = lp.lInitialHeading
             /\ (lp.lTask = CUSTOM_TASK_AGILE /\ lq.lTask # CUSTOM_TASK_AGILE)
                   => /\ lq.lTask = Speed
                      /\ lq.lScore = lp.lScore + 1500
                      /\ KphOf(pC') <= Frac(30, 1)
                      /\ TurnedFrom(pC', lp.lInitialHeading) >= Frac(180, 1)]_vars

\* The second U-turn of a ride has just been completed, from a reference
\* heading taken on a frame above 30 km/h.
UTurnOnlyWhenSlowWitness ==
  /\ sim.kind = "part_002"
  /\ lastOp = "animate"
  /\ loops # <<>>
  /\ loops[1].lTask = Speed
  /\ loops[1].lProgress = 0
  /\ loops[1].lScore >= 7500
  /\ inputs.steer = Frac(1, 1)
  /\ locals.velocity = pC.velocity
  /\ KphOf(pC) <= Frac(30, 1)
  /\ TurnedFrom(pC, loops[1].lInitialHeading) >= Frac(180, 1)
  /\ TurnedFrom(pC, loops[1].lInitialHeading) < Frac(210, 1)

\* The task that follows a task in the cycle, and the total each task shows.
TaskAfter(task) ==
  CASE task = Collect           -> CUSTOM_TASK_AGILE
    [] task = CUSTOM_TASK_AGILE -> Speed
    [] task = Speed             -> Checkpoint
    [] task = Checkpoint        -> Collect

TotalOf(task) ==
  CASE task = Collect           -> 5
    [] task = CUSTOM_TASK_AGILE -> 180
    [] task = Speed             -> 5
    [] task = Checkpoint        -> 3

\* C27: on the motorcycle's mission a frame leaves the task as it was or
\* moves it one step along Collect, U-turn, Speed, Checkpoint, Collect; the
\* total reported is 5, 180, 5 or 3 by the task reported; and the score
\* never decreases.
TaskCycle ==
  [][\A i \in DOMAIN loops :
       (sim.kind = "part_002" /\ frame' # frame /\ sim'.caller = i) =>
         LET lp == loops[i]  lq == loops'[i]
         IN  /\ lq.lTask \in {lp.lTask, TaskAfter(lp.lTask)}
             /\ lq.lTotal = TotalOf(lq.lTask)
             /\ lq.lScore >= lp.lScore
             /\ telemetry'.currentTask = lq.lTask
             /\ telemetry'.taskTotal = TotalOf(lq.lTask)
             /\ telemetry'.score = lq.lScore]_vars

\* A ride has come round to the Collect task again, on a frame with two
\* archways within reach.
TaskCycleWitness ==
  /\ sim.kind = "part_002"
  /\ lastOp = "animate"
  /\ loops # <<>>
  /\ loops[1].lTask = Collect
  /\ loops[1].lTotal = 5
  /\ loops[1].lProgress = 1
  /\ loops[1].archways = 9
  /\ loops[1].lScore >= 5500
  /\ telemetry.currentTask = Collect
  /\ telemetry.taskTotal = 5
  /\ telemetry.score = loops[1].lScore

\* C28: every record a loop with tasks hands to onTelemetry has
\* taskTotal > 0 and 0 <= taskProgress <= taskTotal, whatever the frames
\* before it: frames with two gems or archways within reach, frames on which
\* the task changes, frames on which a car's level is won.
TaskProgressInRange ==
  (sim.kind \in MissionKinds /\ lastOp = "animate") =>
     /\ telemetry.taskTotal > 0
     /\ 0 <= telemetry.taskProgress
     /\ telemetry.taskProgress <= telemetry.taskTotal

\* The frame on which the fifth gem ends the Collect task with a sixth gem
\* within reach: the record shows the gem counted towards the U-turn.
TaskProgressInRangeWitness ==
  /\ sim.kind = "part_002"
  /\ lastOp = "animate"
  /\ loops # <<>>
  /\ loops[1].lTask = CUSTOM_TASK_AGILE
  /\ loops[1].gems = 24
  /\ loops[1].lScore = 1200
  /\ telemetry.currentTask = CUSTOM_TASK_AGILE
  /\ telemetry.taskProgress = 1
  /\ telemetry.taskTotal = 180

\* A car's level has just been won: the progress is back at 0.
LevelWon ==
  /\ sim.kind \in {"part_001", "MotorcycleController.ts"}
  /\ lastOp = "animate"
  /\ sim.level = 2
  /\ telemetry.taskProgress = 0
  /\ telemetry.level = 2

(***************************************************************************)
(* Properties of the collision penalty.                                    *)
(***************************************************************************)

\* A frame of loop i has applied the collision penalty.
Penalised(i) ==
  \/ pC'.velocity # locals'.velocity
  \/ sim'.score < sim.score
  \/ loops'[i].collisionCooldown > loops[i].collisionCooldown

\* C29: in a car's loop a frame applies the collision penalty only if the
\* loop has applied none before or the frames since its last one add up to
\* the cooldown or more, 1.5 s or 1.2 s; a frame applies it once at most,
\* however many obstacles are within reach; and the score is never negative.
PenaltiesKeepCooldown ==
  [][\A i \in DOMAIN loops :
       (sim.kind \in CarKinds /\ frame' # frame /\ sim'.caller = i) =>
         LET rules == CarRules(sim.kind)
             since == loops[i].sinceHit
         IN  /\ Penalised(i) =>
                   (since < 0 \/ since + Frac(dt'.num, dt'.den) >= rules.cooldown)
             /\ pC'.velocity \in {locals'.velocity, Times(locals'.velocity, rules.keep)}
             /\ sim'.score >= Max(0, sim.score - rules.penalty)
             /\ sim'.score >= 0]_vars

\* The second penalty of a run, applied with two obstacles within reach on
\* the first frame after the cooldown.
PenaltiesKeepCooldownWitness ==
  /\ sim.kind \in CarKinds
  /\ lastOp = "animate"
  /\ loops # <<>>
  /\ frame > 24
  /\ loops[1].sinceHit = 0
  /\ loops[1].collisionCooldown = CarRules(sim.kind).cooldown
  /\ pC.velocity > 0
  /\ pC.velocity = Times(locals.velocity, CarRules(sim.kind).keep)
  /\ sim.score = 0

(***************************************************************************)
(* Properties of the tuning panel.                                         *)
(***************************************************************************)

\* C30: a tuning attempt starts only from a prompt that is not blank; the
\* step that ends it, whatever the response, leaves isTuning false; a
\* request that fails and a response that is no JSON leave config as it
\* was; and handleAiTune called with a blank prompt changes nothing of the
\* App's state.
TuningAttemptEnds ==
  [][/\ (~app.isTuning /\ app'.isTuning) => Trim(app.aiPrompt) # ""
     /\ (app.isTuning /\ lastOp' = "tuneResponse") => ~app'.isTuning
     /\ (app.isTuning /\ lastOp' = "tuneResponse"
           /\ app'.response \in {"failed", "not JSON"})
          => (app'.config = app.config /\ app'.errors = app.errors + 1)
     /\ (Trim(app.aiPrompt) = "" /\ app'.aiPrompt = app.aiPrompt
           /\ lastOp' = "handleAiTune") => app' = app]_vars

\* A request has failed: the attempt is over, the error is logged, and the
\* prompt and the Parameter Set are those from before.
TuningAttemptEndsWitness ==
  /\ lastOp = "tuneResponse"
  /\ app.response = "failed"
  /\ app.tunes = 1
  /\ app.errors = 1
  /\ ~app.isTuning
  /\ app.aiPrompt = "more grip"
  /\ app.config = DefaultConfigOf(variant)

\* handleAiTune has been called with a prompt of spaces.
BlankPromptIgnored ==
  /\ lastOp = "handleAiTune"
  /\ app.aiPrompt = "   "
  /\ ~app.isTuning
  /\ app.tunes = 0

=============================================================================
